---------------------------- MODULE Spec2Model ----------------------------
(***************************************************************************)
(* Model of the detection-and-aggregation pipeline of src/infer.py         *)
(* (class YOLODetector): geometry utilities, the cross-class resolver,     *)
(* the temporal stabilizer, the transfer tracker of process_frame and      *)
(* _finalize_transfer.                                                     *)
(*                                                                         *)
(* Conventions.                                                            *)
(*  - Confidences are integers in percent (0.7 is 70).                     *)
(*  - A float that the code compares with a literal is kept as an exact    *)
(*    fraction <<numerator, denominator>>; the comparisons are cross       *)
(*    multiplied.  The operands are small integers, where the float        *)
(*    quotient and the fraction order the same way.                        *)
(*  - A Python dict keyed by class name is a function whose DOMAIN is the  *)
(*    set of keys present; its iteration order is the insertion order of   *)
(*    process_frame: smudge, simbolos, blackdot.                           *)
(*  - A missing 'class_id' is NoClassId.  A sub-detector result that is    *)
(*    None and one without boxes take the same branch at every use         *)
(*    (validators, detections_by_class, the OK/NO analysis): both are the  *)
(*    empty sequence NoResult.  A ROI bbox that is None is NoBbox.         *)
(*  - The display-only state of process_frame (annotated frame, timing,    *)
(*    class_history / predominant_class) is read by nothing modelled here  *)
(*    and is left out.                                                     *)
(***************************************************************************)
EXTENDS Integers, Sequences, FiniteSets, TLC

(***************************************************************************)
(* Program constants (src/infer.py, YOLODetector.__init__ and literals).   *)
(***************************************************************************)
DEFAULT_ABSENT_TO_NEW == 8
stabilization_window == 8
bbox_smoothing_frames == 5
bbox_confidence_threshold == 30
min_detection_confidence == 50
fifa_min_confidence == 70
HISTORY_CAP == 100
roi_min_pixels == 2000
QUEUE_MAXSIZE == 8

class_priority == <<"blackdot", "simbolos", "smudge">>
exclusive_classes == <<"smudge", "simbolos", "blackdot">>
ModelKeys == {"seg", "smudge", "simbolos", "blackdot"}
StatKeys == {"smudge", "simbolos", "blackdot", "fifa_ok", "fifa_no",
             "simbolo_ok", "simbolo_no", "string_ok", "string_no"}
ClassKeys == {"smudge", "simbolos", "blackdot"}
OkNoKeys == StatKeys \ ClassKeys
NoClassId == -1
NoResult == <<>>
NoBbox == <<>>

(***************************************************************************)
(* Bounds of the model.                                                    *)
(***************************************************************************)
SmallAbsentToNew == 2
MaxFrames == 7
TrackFrames == 30
MaxCalls == 4
MaxCount == 4
MaxDets == 3
MaxTransfers == 1
\* Scenario A: ScenarioPresent frames with a ROI, then ScenarioAbsent without.
ScenarioPresent == 20
ScenarioAbsent == 10
ApprovalFrames == 10
SessionFrames == 6
PriorClosures == 99
HistoryFrames == 9
NoiseCalls == 6
WindowFrames == 9
ControlFrames == 3
QueueCaptures == 10
MappingFrames == 6
FirstCalls == 2
BboxCalls == 3
MaxBoxes == 2

(***************************************************************************)
(* Arithmetic helpers.                                                     *)
(***************************************************************************)
Max(a, b) == IF a >= b THEN a ELSE b
Min(a, b) == IF a <= b THEN a ELSE b
Abs(a) == IF a >= 0 THEN a ELSE -a

\* sum(s), added up by halves so that a history of HISTORY_CAP records is
\* summed within the evaluator's stack.
RECURSIVE SumRange(_, _, _)
SumRange(s, lo, hi) ==
    IF lo > hi THEN 0
    ELSE IF lo = hi THEN s[lo]
    ELSE SumRange(s, lo, (lo + hi) \div 2)
            + SumRange(s, (lo + hi) \div 2 + 1, hi)

SumSeq(s) == SumRange(s, 1, Len(s))

RECURSIVE CountPositive(_)
CountPositive(s) ==
    IF s = <<>> THEN 0
    ELSE (IF s[1] > 0 THEN 1 ELSE 0) + CountPositive(Tail(s))

\* Python 3 round() of the non-negative fraction num/den: half to even.
PyRound(num, den) ==
    LET q == num \div den
        r == num % den
    IN  IF 2 * r < den THEN q
        ELSE IF 2 * r > den THEN q + 1
        ELSE IF q % 2 = 0 THEN q ELSE q + 1

(***************************************************************************)
(* Geometry utilities.                                                     *)
(***************************************************************************)
\* _calculate_iou, as the fraction <<intersection, union>> (<<0, 1>> is 0.0).
CalculateIou(box1, box2) ==
    LET x1_i == Max(box1[1], box2[1])
        y1_i == Max(box1[2], box2[2])
        x2_i == Min(box1[3], box2[3])
        y2_i == Min(box1[4], box2[4])
        intersection == (x2_i - x1_i) * (y2_i - y1_i)
        area1 == (box1[3] - box1[1]) * (box1[4] - box1[2])
        area2 == (box2[3] - box2[1]) * (box2[4] - box2[2])
        union == area1 + area2 - intersection
    IN  IF x2_i <= x1_i \/ y2_i <= y1_i THEN <<0, 1>>
        ELSE IF union > 0 THEN <<intersection, union>> ELSE <<0, 1>>

\* iou > num/den for a fraction iou with a positive denominator.
IouGreater(iou, num, den) == iou[1] * den > num * iou[2]

\* A separation test that does not count touching boxes as outside.
IsBoxStrictlyOutside(box1, box2) ==
    \/ box1[3] < box2[1]
    \/ box1[1] > box2[3]
    \/ box1[4] < box2[2]
    \/ box1[2] > box2[4]

\* _is_box_completely_outside
IsBoxCompletelyOutside(box1, box2) ==
    \/ box1[3] <= box2[1]
    \/ box1[1] >= box2[3]
    \/ box1[4] <= box2[2]
    \/ box1[2] >= box2[4]

(***************************************************************************)
(* Temporal stabilizer: _stabilize_detection_count.                        *)
(***************************************************************************)
RECURSIVE WeightedSum(_, _)
WeightedSum(h, i) ==
    IF i = 0 THEN 0 ELSE h[i] * i + WeightedSum(h, i - 1)

\* The history after appending current_count and trimming to the window.
StabilizedHistory(hist, current_count) ==
    LET h1 == Append(hist, current_count)
    IN  IF Len(h1) > stabilization_window
        THEN SubSeq(h1, Len(h1) - stabilization_window + 1, Len(h1))
        ELSE h1

\* No jump is ever limited.
JumpNeverTooLarge(ws, tw, previous_count) == FALSE

\* The jump limiter: abs(stabilized - previous) > max(1, previous * 0.5),
\* with stabilized = ws / tw.
JumpTooLarge(ws, tw, previous_count) ==
    2 * Abs(ws - previous_count * tw) > tw * Max(2, previous_count)

\* A stabilizer that starts from nothing: the first value returned is at
\* most 1.
StabilizedCountStartsLow(hist, current_count) ==
    Min(current_count, Len(hist) + 1)

\* The value returned by _stabilize_detection_count.
StabilizedCount(hist, current_count) ==
    LET h  == StabilizedHistory(hist, current_count)
        n  == Len(h)
        ws == WeightedSum(h, n)
        tw == (n * (n + 1)) \div 2
        previous_count == h[n - 1]
    IN  IF n > 1 /\ JumpTooLarge(ws, tw, previous_count)
        THEN previous_count + (IF ws > previous_count * tw THEN 1 ELSE -1)
        ELSE PyRound(ws, tw)

(***************************************************************************)
(* Cross-class resolver.  A detection is a record                          *)
(* [bbox, confidence, class_id]; the resolver annotates it with its class, *)
(* priority and the two FIFA marks.                                        *)
(***************************************************************************)
RECURSIVE IndexOf(_, _, _)
IndexOf(seq, x, i) ==
    IF i > Len(seq) THEN 999
    ELSE IF seq[i] = x THEN i - 1 ELSE IndexOf(seq, x, i + 1)

\* is_fifa_in_simbolos: FIFA_NO (0) or FIFA_OK (1) of the simbolos model.
IsFifaInSimbolos(class_name, class_id) ==
    class_name = "simbolos" /\ class_id # NoClassId /\ class_id \in {0, 1}

\* priority: every branch of the adjustment yields the index in class_priority
\* (1 for FIFA of simbolos, which is the index of simbolos).
Priority(class_name, class_id) ==
    IF IsFifaInSimbolos(class_name, class_id) THEN 1
    ELSE IndexOf(class_priority, class_name, 1)

Annotate(class_name, detection) ==
    [class |-> class_name,
     bbox |-> detection.bbox,
     confidence |-> detection.confidence,
     class_id |-> detection.class_id,
     priority |-> Priority(class_name, detection.class_id),
     is_exclusive |-> \E i \in 1..Len(exclusive_classes) :
                         exclusive_classes[i] = class_name,
     is_fifa_in_simbolos |-> IsFifaInSimbolos(class_name, detection.class_id),
     is_fifa_smudge |-> class_name = "smudge"]

AnnotateAll(class_name, dets) ==
    [i \in 1..Len(dets) |-> Annotate(class_name, dets[i])]

\* The keys of a dict in iteration order.
KeysInOrder(d) == SelectSeq(exclusive_classes, LAMBDA c : c \in DOMAIN d)

RECURSIVE CollectDetections(_, _, _)
CollectDetections(d, keys, i) ==
    IF i > Len(keys) THEN <<>>
    ELSE AnnotateAll(keys[i], d[keys[i]]) \o CollectDetections(d, keys, i + 1)

\* A sort by confidence alone.
SortKeyLEByConfidence(a, b) == a.confidence >= b.confidence

\* key(a) <= key(b) for the sort key (priority, -confidence).
SortKeyLE(a, b) ==
    \/ a.priority < b.priority
    \/ a.priority = b.priority /\ a.confidence >= b.confidence

\* list.sort is stable: e goes after every element whose key is <= its own.
InsertSorted(s, e) ==
    LET n == Cardinality({i \in 1..Len(s) : SortKeyLE(s[i], e)})
    IN  SubSeq(s, 1, n) \o <<e>> \o SubSeq(s, n + 1, Len(s))

RECURSIVE SortFrom(_, _, _)
SortFrom(seq, i, acc) ==
    IF i > Len(seq) THEN acc
    ELSE SortFrom(seq, i + 1, InsertSorted(acc, seq[i]))

SortDetections(seq) == SortFrom(seq, 1, <<>>)

\* The bboxes of the detections that are not smudge, in list order.
OtherBoxes(dets) ==
    LET others == SelectSeq(dets, LAMBDA x : ~x.is_fifa_smudge)
    IN  [i \in 1..Len(others) |-> others[i].bbox]

\* A smudge rule that only looks at the first other box.
SmudgeOverlapsFirstOther(detection, other_boxes) ==
    /\ detection.is_fifa_smudge
    /\ Len(other_boxes) > 0
    /\ ~IsBoxCompletelyOutside(detection.bbox, other_boxes[1])

\* The smudge rule: some other box is not completely outside the smudge box.
SmudgeOverlapsOther(detection, other_boxes) ==
    /\ detection.is_fifa_smudge
    /\ \E j \in 1..Len(other_boxes) :
          ~IsBoxCompletelyOutside(detection.bbox, other_boxes[j])

\* fifa_fifa_intersection of _apply_exclusive_filtering.
FifaFifaExclusive(detection, accepted) ==
    \/ detection.is_fifa_smudge /\ accepted.is_fifa_in_simbolos
    \/ detection.is_fifa_in_simbolos /\ accepted.is_fifa_smudge

\* iou > 0.1 in the exclusive pass.
ExclusiveIouOverlapLoose(detection, accepted) ==
    IouGreater(CalculateIou(detection.bbox, accepted.bbox), 1, 10)

\* iou > 0.02 against an accepted detection of the exclusive pass.
ExclusiveIouOverlap(detection, accepted) ==
    IouGreater(CalculateIou(detection.bbox, accepted.bbox), 2, 100)

OverlapsAcceptedExclusive(detection, accepted_list) ==
    \E k \in 1..Len(accepted_list) :
        /\ ~FifaFifaExclusive(detection, accepted_list[k])
        /\ ExclusiveIouOverlap(detection, accepted_list[k])

RECURSIVE ExclusiveLoop(_, _, _, _)
ExclusiveLoop(sorted, other_boxes, i, filtered_exclusive) ==
    IF i > Len(sorted) THEN filtered_exclusive
    ELSE LET detection == sorted[i]
             is_overlapping ==
                 \/ SmudgeOverlapsOther(detection, other_boxes)
                 \/ OverlapsAcceptedExclusive(detection, filtered_exclusive)
         IN  ExclusiveLoop(sorted, other_boxes, i + 1,
                 IF is_overlapping THEN filtered_exclusive
                 ELSE Append(filtered_exclusive, detection))

\* A filtered detection that loses its class_id.
PlainNoClassId(detection) ==
    [bbox |-> detection.bbox,
     confidence |-> detection.confidence,
     class_id |-> NoClassId]

\* The filtered detection put in the result: bbox, confidence and class_id.
Plain(detection) ==
    [bbox |-> detection.bbox,
     confidence |-> detection.confidence,
     class_id |-> detection.class_id]

\* The result dict: the keys of the input, each with its accepted detections
\* in acceptance order.
GroupByClass(keys, accepted_list) ==
    [c \in keys |->
        LET mine == SelectSeq(accepted_list, LAMBDA x : x.class = c)
        IN  [i \in 1..Len(mine) |-> Plain(mine[i])]]

\* _apply_exclusive_filtering
ApplyExclusiveFiltering(detections_by_class) ==
    LET exclusive_detections ==
            SortDetections(CollectDetections(detections_by_class,
                               KeysInOrder(detections_by_class), 1))
        other_exclusive_flat == OtherBoxes(exclusive_detections)
    IN  GroupByClass(DOMAIN detections_by_class,
            ExclusiveLoop(exclusive_detections, other_exclusive_flat, 1, <<>>))

\* fifa_fifa_intersection of _filter_overlapping_detections.
FifaFifaGeneral(detection, accepted) ==
    \/ detection.is_fifa_smudge /\ accepted.is_fifa_in_simbolos
    \/ detection.is_fifa_in_simbolos /\ accepted.class = "smudge"

\* A general pass in which any overlap at all removes the detection.
GeneralIouOverlapAny(detection, accepted) ==
    IouGreater(CalculateIou(detection.bbox, accepted.bbox), 0, 1)

\* The threshold test against one accepted detection: 0.1 for an exclusive
\* class against another class, overlap_threshold (0.3) for a class that is
\* not exclusive, nothing for an exclusive class against itself.
GeneralIouOverlap(detection, accepted) ==
    LET iou == CalculateIou(detection.bbox, accepted.bbox)
    IN  IF detection.is_exclusive /\ accepted.class # detection.class
        THEN IouGreater(iou, 1, 10)
        ELSE IF ~detection.is_exclusive THEN IouGreater(iou, 3, 10)
        ELSE FALSE

OverlapsAcceptedGeneral(detection, accepted_list) ==
    \E k \in 1..Len(accepted_list) :
        /\ ~FifaFifaGeneral(detection, accepted_list[k])
        /\ GeneralIouOverlap(detection, accepted_list[k])

RECURSIVE GeneralLoop(_, _, _, _)
GeneralLoop(sorted, other_boxes, i, accepted_list) ==
    IF i > Len(sorted) THEN accepted_list
    ELSE LET detection == sorted[i]
             is_overlapping ==
                 \/ SmudgeOverlapsOther(detection, other_boxes)
                 \/ OverlapsAcceptedGeneral(detection, accepted_list)
         IN  GeneralLoop(sorted, other_boxes, i + 1,
                 IF is_overlapping THEN accepted_list
                 ELSE Append(accepted_list, detection))

\* _filter_overlapping_detections
FilterOverlappingDetections(detections_by_class) ==
    LET all_detections ==
            SortDetections(CollectDetections(detections_by_class,
                               KeysInOrder(detections_by_class), 1))
        other_detections_flat == OtherBoxes(all_detections)
    IN  GroupByClass(DOMAIN detections_by_class,
            GeneralLoop(all_detections, other_detections_flat, 1, <<>>))

\* The two-stage resolution of process_frame.
ResolveDetections(detections_by_class) ==
    FilterOverlappingDetections(ApplyExclusiveFiltering(detections_by_class))

(***************************************************************************)
(* Quality validators and the crop-to-frame mapping.  A raw sub-detector   *)
(* result is the sequence of its raw boxes                                 *)
(* [xyxyn, conf, cls, in_mask]: xyxyn in per-mille of the crop, conf in    *)
(* percent, cls the class index, in_mask what the ROI mask answers for the *)
(* box once mapped (centre on the mask, or at least half of its area).     *)
(***************************************************************************)
FrameWidth == 200
FrameHeight == 200

\* _validate_detection_quality
ValidateDetectionQuality(result, min_confidence) ==
    /\ Len(result) > 0
    /\ \E i \in 1..Len(result) : result[i].conf >= min_confidence

\* One box of the strict validator, on boxes.xyxy = xyxyn * crop size:
\* width and height in [25, 150], width / height in [0.3, 3.0].
FifaBoxValid(box, crop_shape) ==
    LET w1000 == (box.xyxyn[3] - box.xyxyn[1]) * crop_shape[2]
        h1000 == (box.xyxyn[4] - box.xyxyn[2]) * crop_shape[1]
    IN  /\ ~(w1000 < 25000 \/ h1000 < 25000)
        /\ ~(w1000 > 150000 \/ h1000 > 150000)
        /\ ~(10 * w1000 < 3 * h1000 \/ w1000 > 3 * h1000)

\* The strict validator without its tests of the boxes' sizes.
ValidateFifaConfidenceOnly(result, min_confidence, crop_shape) ==
    /\ Len(result) > 0
    /\ \E i \in 1..Len(result) : result[i].conf >= min_confidence

\* _validate_fifa_detection
ValidateFifaDetection(result, min_confidence, crop_shape) ==
    /\ Len(result) > 0
    /\ \E i \in 1..Len(result) : result[i].conf >= min_confidence
    /\ \E i \in 1..Len(result) : FifaBoxValid(result[i], crop_shape)

\* _validate_bbox without its tests of the minimum and maximum size.
ValidateBboxLimitsOnly(bbox, frame_shape) ==
    LET height == frame_shape[1]
        width  == frame_shape[2]
    IN  /\ ~(bbox[1] < 0 \/ bbox[2] < 0 \/ bbox[3] >= width \/ bbox[4] >= height)
        /\ ~(bbox[3] <= bbox[1] \/ bbox[4] <= bbox[2])

\* _validate_bbox
ValidateBbox(bbox, frame_shape) ==
    LET height == frame_shape[1]
        width  == frame_shape[2]
    IN  /\ ~(bbox[1] < 0 \/ bbox[2] < 0 \/ bbox[3] >= width \/ bbox[4] >= height)
        /\ ~(bbox[3] <= bbox[1] \/ bbox[4] <= bbox[2])
        /\ ~((bbox[3] - bbox[1]) < 10 \/ (bbox[4] - bbox[2]) < 10)
        /\ ~(10 * (bbox[3] - bbox[1]) > 8 * width
             \/ 10 * (bbox[4] - bbox[2]) > 8 * height)

Clip(v, lo, hi) == Max(lo, Min(v, hi))

\* One box of boxes_from_result_in_frame before validation: scale by the
\* crop, add the offset, clip to the frame, order the corners, truncate.
MapBox(xyxyn, x0, y0, crop_shape, frame_shape) ==
    LET Hf == frame_shape[1]
        Wf == frame_shape[2]
        Hc == crop_shape[1]
        Wc == crop_shape[2]
        \* thousandths of a pixel, clipped to [0, Wf - 1] and [0, Hf - 1]
        bx1 == Clip(xyxyn[1] * Wc + 1000 * x0, 0, 1000 * (Wf - 1))
        by1 == Clip(xyxyn[2] * Hc + 1000 * y0, 0, 1000 * (Hf - 1))
        bx2 == Clip(xyxyn[3] * Wc + 1000 * x0, 0, 1000 * (Wf - 1))
        by2 == Clip(xyxyn[4] * Hc + 1000 * y0, 0, 1000 * (Hf - 1))
    IN  <<Min(bx1, bx2) \div 1000, Min(by1, by2) \div 1000,
          Max(bx1, bx2) \div 1000, Max(by1, by2) \div 1000>>

\* boxes_from_result_in_frame: the mapped boxes that pass _filter_valid_bboxes,
\* in order.  Each keeps in_mask, the answer of the mask for that box.
\* The positions in result.boxes of the boxes _filter_valid_bboxes keeps.
ValidPositions(result, x0, y0, crop_shape, frame_shape) ==
    SelectSeq([i \in 1..Len(result) |-> i],
              LAMBDA i : ValidateBbox(MapBox(result[i].xyxyn, x0, y0,
                                             crop_shape, frame_shape),
                                      frame_shape))

BoxesFromResultInFrame(result, x0, y0, crop_shape, frame_shape) ==
    IF Len(result) = 0 THEN <<>>
    ELSE LET mapped == [i \in 1..Len(result) |->
                          [bbox |-> MapBox(result[i].xyxyn, x0, y0,
                                           crop_shape, frame_shape),
                           in_mask |-> result[i].in_mask]]
         IN  SelectSeq(mapped, LAMBDA m : ValidateBbox(m.bbox, frame_shape))

\* is_detection_inside_roi for the ROI bbox (x, y, w, h) and mask of a frame
\* with a ROI: the centre of the box lies in the bbox and the mask accepts
\* the box.
IsDetectionInsideRoi(coords, roi_bbox) ==
    LET center_x == (coords.bbox[1] + coords.bbox[3]) \div 2
        center_y == (coords.bbox[2] + coords.bbox[4]) \div 2
    IN  /\ roi_bbox[1] <= center_x /\ center_x <= roi_bbox[1] + roi_bbox[3]
        /\ roi_bbox[2] <= center_y /\ center_y <= roi_bbox[2] + roi_bbox[4]
        /\ coords.in_mask

\* The list process_frame builds for one class: box i of the mapped boxes
\* with confidences[i] and class_ids[i] of the raw result.
CollectInRoi(result, boxes_coords, roi_bbox, with_class_id) ==
    LET idx == SelectSeq([i \in 1..Len(boxes_coords) |-> i],
                   LAMBDA i : IsDetectionInsideRoi(boxes_coords[i], roi_bbox))
    IN  [k \in 1..Len(idx) |->
            [bbox |-> boxes_coords[idx[k]].bbox,
             confidence |-> result[idx[k]].conf,
             class_id |-> IF with_class_id THEN result[idx[k]].cls
                          ELSE NoClassId]]

\* _analyze_ok_no_classes on the raw result of the simbolos model.
CountClass(result, cls) ==
    Cardinality({i \in 1..Len(result) : result[i].cls = cls})

AnalyzeOkNoClasses(simbolos_result) ==
    IF Len(simbolos_result) = 0
    THEN [k \in OkNoKeys |-> 0]
    ELSE [fifa_no |-> CountClass(simbolos_result, 0),
          fifa_ok |-> CountClass(simbolos_result, 1),
          simbolo_no |-> CountClass(simbolos_result, 2),
          simbolo_ok |-> CountClass(simbolos_result, 3),
          string_no |-> CountClass(simbolos_result, 4),
          string_ok |-> CountClass(simbolos_result, 5)]

(***************************************************************************)
(* ROI bbox stabilizer: _smooth_bbox.                                      *)
(***************************************************************************)
\* The history after the call.
\* A bbox history that is never trimmed.
SmoothedHistoryUncapped(hist, current_bbox, confidence) ==
    IF confidence < bbox_confidence_threshold THEN hist
    ELSE Append(hist, current_bbox)

SmoothedHistory(hist, current_bbox, confidence) ==
    IF confidence < bbox_confidence_threshold THEN hist
    ELSE LET h1 == Append(hist, current_bbox)
         IN  IF Len(h1) > bbox_smoothing_frames THEN Tail(h1) ELSE h1

RECURSIVE WeightedCoord(_, _, _)
WeightedCoord(h, k, i) ==
    IF i = 0 THEN 0 ELSE h[i][k] * i + WeightedCoord(h, k, i - 1)

\* The bbox returned: the weights (i + 1) / len share the factor 1 / len.
SmoothBbox(hist, current_bbox, confidence) ==
    IF confidence < bbox_confidence_threshold
    THEN IF hist # <<>> THEN hist[Len(hist)] ELSE current_bbox
    ELSE LET h == SmoothedHistory(hist, current_bbox, confidence)
             n == Len(h)
             tw == (n * (n + 1)) \div 2
         IN  IF n < 2 THEN current_bbox
             ELSE [k \in 1..4 |-> WeightedCoord(h, k, n) \div tw]

(***************************************************************************)
(* State of a YOLODetector.                                                *)
(***************************************************************************)
VARIABLES
    ABSENT_TO_NEW,                 \* config transfer.absent_to_new
    seg_model,                     \* the segmentation model, or "None"
    model_enabled,                 \* enable flag per model
    transfer_count,
    frames_without_roi,
    last_roi_bbox,
    current_transfer_active,
    current_transfer_start_frame,
    current_transfer_frames,
    frame_count,
    detection_history,             \* per class, the raw counts of the window
    bbox_history,
    transfer_stats,                \* totals and transfer_history
    current_transfer_stats,        \* the nine per-frame sequences
    transfer_averages,             \* per class, the fraction <<sum, len>>
    stats,                         \* the stats dict of the last process_frame
    \* observers, written by no code path and read by no action guard
    last_event,                    \* what the last step did
    last_roi_frame,                \* number of the last frame with a ROI, or 0
    scenario_a,                    \* the run so far is a prefix of scenario A
    closed_stats,                  \* the sequences the last closure read
    transfers_opened,              \* times the opening branch was taken
    transfers_closed,              \* times _finalize_transfer was called
    inferences_run,                \* classes the last frame called detect_in_roi for
    last_extraction,               \* what the last segmentation gave
    handed_to_resolver,            \* the last frame's detections and raw boxes
    stab_class,                    \* the class a stabilizer run exercises
    stab_outputs,                  \* the values returned to it, in order
    smooth_inputs,                 \* the arguments of the _smooth_bbox calls
    smooth_outputs,                \* the bboxes they returned, in order
    raw_result,                    \* the boxes of a result given to a method
    last_call,                     \* the last such call: arguments and return
    res_phase,                     \* "off", "input" or "resolved"
    res_input,                     \* input of a resolver run
    res_exclusive,                 \* after _apply_exclusive_filtering
    res_output,                    \* after _filter_overlapping_detections
    \* the host application
    running,                       \* YOLODetectionApp.running
    final_summary,                 \* the summaries stop() has produced
    \* the capture thread and the inference thread
    frame_queue,                   \* BaslerCamera.frame_queue, frames by number
    captured,                      \* frames grab_frame has returned so far
    grabbed,                       \* the frame _grab_loop holds, if any
    discarded,                     \* frames dropped on queue.Full, in order
    received,                      \* frames get_frame has returned, in order
    skipped,                       \* positions in received skipped while paused
    ui_paused                      \* what ui.is_paused() returns

tracker == <<transfer_count, frames_without_roi, last_roi_bbox,
             current_transfer_active, current_transfer_start_frame,
             current_transfer_frames, frame_count>>
stabilizer == <<detection_history, bbox_history>>
aggregate == <<transfer_stats, current_transfer_stats, transfer_averages>>
observers == <<last_event, last_roi_frame, scenario_a, closed_stats,
               transfers_opened, transfers_closed, inferences_run,
               last_extraction, handed_to_resolver>>
stab_run == <<stab_class, stab_outputs, smooth_inputs, smooth_outputs,
             raw_result, last_call>>
res_run == <<res_phase, res_input, res_exclusive, res_output>>
session == <<running, final_summary>>
threads == <<frame_queue, captured, grabbed, discarded, received, skipped,
             ui_paused>>
vars == <<ABSENT_TO_NEW, threads, seg_model, model_enabled, tracker,
          stabilizer, aggregate, stats, observers, stab_run, res_run,
          session>>

ZeroAverage == <<0, 1>>
EmptyStats == [k \in StatKeys |-> <<>>]
\* stats["approval_rate"], a percentage as <<numerator, denominator>>.
ApprovalRate(ts) ==
    IF ts.total_evaluated > 0
    THEN <<ts.total_approved * 100, ts.total_evaluated>>
    ELSE <<0, 1>>

InitialStats ==
    [smudge |-> 0, simbolos |-> 0, blackdot |-> 0, has_roi |-> FALSE,
     transfer_count |-> 0, ok_no |-> [k \in OkNoKeys |-> 0],
     approval_rate |-> <<0, 1>>]

\* The detector after __init__ and load_models, with
\* transfer.absent_to_new = n and the segmentation model loaded or not.
FreshDetector(n, seg) ==
    /\ ABSENT_TO_NEW = n
    /\ seg_model = seg
    /\ model_enabled = [m \in ModelKeys |-> TRUE]
    /\ transfer_count = 0
    /\ frames_without_roi = 0
    /\ last_roi_bbox = NoBbox
    /\ current_transfer_active = FALSE
    /\ current_transfer_start_frame = 0
    /\ current_transfer_frames = 0
    /\ frame_count = 0
    /\ detection_history = [c \in ClassKeys |-> <<>>]
    /\ bbox_history = <<>>
    /\ transfer_stats = [total_evaluated |-> 0, total_approved |-> 0,
                         total_rejected |-> 0, transfer_history |-> <<>>]
    /\ current_transfer_stats = EmptyStats
    /\ transfer_averages = [c \in ClassKeys |-> ZeroAverage]
    /\ stats = InitialStats
    /\ last_event = "init"
    /\ last_roi_frame = 0
    /\ scenario_a = TRUE
    /\ closed_stats = EmptyStats
    /\ transfers_opened = 0
    /\ transfers_closed = 0
    /\ inferences_run = {}
    /\ last_extraction = <<>>
    /\ handed_to_resolver = <<>>

\* The same with every model loaded.
Fresh(n) == FreshDetector(n, "loaded")

\* The application has not been started.
\* queue.Queue(maxsize=8), empty, and no thread started.
NoThreads ==
    /\ frame_queue = <<>>
    /\ captured = 0
    /\ grabbed = <<>>
    /\ discarded = <<>>
    /\ received = <<>>
    /\ skipped = {}
    /\ ui_paused = FALSE
NoSession == running = FALSE /\ final_summary = <<>> /\ NoThreads

\* No stabilizer run and no resolver run is observed.
NoSmoothRun == smooth_inputs = <<>> /\ smooth_outputs = <<>>
NoResultRun == raw_result = <<>> /\ last_call = <<>>
NoStabRun ==
    stab_class = "None" /\ stab_outputs = <<>> /\ NoSmoothRun /\ NoResultRun
NoResRun ==
    /\ res_phase = "off"
    /\ res_input = <<>>
    /\ res_exclusive = <<>>
    /\ res_output = <<>>

(***************************************************************************)
(* _finalize_transfer, as the values it leaves.                            *)
(***************************************************************************)
\* np.mean of a sequence of counts, 0.0 for an empty one.
\* The share of the frames in which the class was counted at all.
MeanOfClamped(seq) ==
    IF Len(seq) > 0 THEN <<CountPositive(seq), Len(seq)>> ELSE ZeroAverage

MeanOf(seq) == IF Len(seq) > 0 THEN <<SumSeq(seq), Len(seq)>> ELSE ZeroAverage

\* avg >= 0.20
ExceedsRejectThresholdInclusive(avg) == 5 * avg[1] >= avg[2]

\* avg > 0.20
ExceedsRejectThreshold(avg) == 5 * avg[1] > avg[2]

FramesWithEither(ok_seq, no_seq) ==
    Cardinality({i \in 1..Min(Len(ok_seq), Len(no_seq)) :
                    ok_seq[i] > 0 \/ no_seq[i] > 0})

OkNoTotals(cts, ok_key, no_key) ==
    [total |-> SumSeq(cts[ok_key]) + SumSeq(cts[no_key]),
     ok |-> SumSeq(cts[ok_key]),
     no |-> SumSeq(cts[no_key]),
     frames_with_detection |-> FramesWithEither(cts[ok_key], cts[no_key])]

FinalAverages(cts) == [c \in ClassKeys |-> MeanOf(cts[c])]

\* approved = not (smudge_reject or simbolos_reject or blackdot_reject)
Approved(averages) ==
    ~(\/ ExceedsRejectThreshold(averages["smudge"])
      \/ ExceedsRejectThreshold(averages["simbolos"])
      \/ ExceedsRejectThreshold(averages["blackdot"]))

TransferRecord(cts, id, duration, start) ==
    LET averages == FinalAverages(cts)
    IN  [transfer_id |-> id,
         duration_frames |-> duration,
         start_frame |-> start,
         smudge_avg |-> averages["smudge"],
         simbolos_avg |-> averages["simbolos"],
         blackdot_avg |-> averages["blackdot"],
         approved |-> Approved(averages),
         classes_detected |->
            [smudge_detected |-> averages["smudge"][1] > 0,
             simbolos_detected |-> averages["simbolos"][1] > 0,
             blackdot_detected |-> averages["blackdot"][1] > 0],
         rejection_reasons |->
            [smudge_reject |-> ExceedsRejectThreshold(averages["smudge"]),
             simbolos_reject |-> ExceedsRejectThreshold(averages["simbolos"]),
             blackdot_reject |-> ExceedsRejectThreshold(averages["blackdot"])],
         objects_detected |->
            [blackdot |-> [total |-> SumSeq(cts["blackdot"]),
                           frames_with_detection |->
                               CountPositive(cts["blackdot"])],
             smudge |-> [total |-> SumSeq(cts["smudge"]),
                         frames_with_detection |-> CountPositive(cts["smudge"])],
             fifa |-> OkNoTotals(cts, "fifa_ok", "fifa_no"),
             simbolo |-> OkNoTotals(cts, "simbolo_ok", "simbolo_no"),
             string |-> OkNoTotals(cts, "string_ok", "string_no")]]

\* The append without the cap.
AppendUncapped(history, record) == Append(history, record)

\* The record put in front of the history instead of at its end.
AppendCappedFront(history, record) ==
    LET h1 == <<record>> \o history
    IN  IF Len(h1) > HISTORY_CAP THEN Tail(h1) ELSE h1

\* The history after the append and the cap of 100.
AppendCapped(history, record) ==
    LET h1 == Append(history, record)
    IN  IF Len(h1) > HISTORY_CAP THEN Tail(h1) ELSE h1

\* A closure that counts no rejection.
FinalizedTransferStatsNoReject(ts, record) ==
    [total_evaluated |-> ts.total_evaluated + 1,
     total_approved |-> ts.total_approved + (IF record.approved THEN 1 ELSE 0),
     total_rejected |-> ts.total_rejected,
     transfer_history |-> AppendCapped(ts.transfer_history, record)]

\* A closure that counts every transfer as approved and the rejected ones
\* as rejected too.
FinalizedTransferStatsBoth(ts, record) ==
    [total_evaluated |-> ts.total_evaluated + 1,
     total_approved |-> ts.total_approved + 1,
     total_rejected |-> ts.total_rejected + (IF record.approved THEN 0 ELSE 1),
     transfer_history |-> AppendCapped(ts.transfer_history, record)]

\* A closure that leaves total_evaluated as it was.
FinalizedTransferStatsUncounted(ts, record) ==
    [total_evaluated |-> ts.total_evaluated,
     total_approved |-> ts.total_approved + (IF record.approved THEN 1 ELSE 0),
     total_rejected |-> ts.total_rejected + (IF record.approved THEN 0 ELSE 1),
     transfer_history |-> AppendCapped(ts.transfer_history, record)]

\* A closure whose running total is the length of the capped history.
FinalizedTransferStatsCountingHistory(ts, record) ==
    [total_evaluated |-> Len(AppendCapped(ts.transfer_history, record)),
     total_approved |-> ts.total_approved + (IF record.approved THEN 1 ELSE 0),
     total_rejected |-> ts.total_rejected + (IF record.approved THEN 0 ELSE 1),
     transfer_history |-> AppendCapped(ts.transfer_history, record)]

\* transfer_stats after the closure.
FinalizedTransferStats(ts, record) ==
    [total_evaluated |-> ts.total_evaluated + 1,
     total_approved |-> ts.total_approved + (IF record.approved THEN 1 ELSE 0),
     total_rejected |-> ts.total_rejected + (IF record.approved THEN 0 ELSE 1),
     transfer_history |-> AppendCapped(ts.transfer_history, record)]

\* A clearing that empties the OK/NO sequences only.
ClearedOkNoOnly(cts) ==
    [key \in DOMAIN cts |-> IF key \in OkNoKeys THEN <<>> ELSE cts[key]]

\* Every sequence of the current transfer set to the empty list.
ClearedStats(cts) == [key \in DOMAIN cts |-> <<>>]

\* _finalize_transfer: averages, totals, record, cleared sequences.
FinalizeTransfer ==
    LET record == TransferRecord(current_transfer_stats, transfer_count,
                                 current_transfer_frames,
                                 current_transfer_start_frame)
    IN  /\ transfer_averages' = FinalAverages(current_transfer_stats)
        /\ transfer_stats' = FinalizedTransferStats(transfer_stats, record)
        /\ current_transfer_stats' = ClearedStats(current_transfer_stats)
        /\ closed_stats' = current_transfer_stats

(***************************************************************************)
(* process_frame.  A frame with a ROI is the record                        *)
(* [roi_bbox, roi_confidence, results]: what extract_roi_from_segmentation *)
(* and the three detect_in_roi calls return for it.                        *)
(***************************************************************************)
FrameShape == <<FrameHeight, FrameWidth>>

\* The crop frame[y:y+h, x:x+w] of a ROI bbox (x, y, w, h) inside the frame.
CropShape(roi_bbox) == <<roi_bbox[4], roi_bbox[3]>>

\* The result kept whether or not the class's model is enabled.
KeptResultAlways(c, f) ==
    LET result == f.results[c]
        valid == IF c = "smudge"
                 THEN ValidateFifaDetection(result, fifa_min_confidence,
                                            CropShape(f.roi_bbox))
                 ELSE ValidateDetectionQuality(result, min_detection_confidence)
    IN  IF valid THEN result ELSE NoResult

\* The result kept for a class: NoResult when the model is disabled or its
\* validator rejects the result.
KeptResult(c, f) ==
    LET result == f.results[c]
        valid == IF c = "smudge"
                 THEN ValidateFifaDetection(result, fifa_min_confidence,
                                            CropShape(f.roi_bbox))
                 ELSE ValidateDetectionQuality(result, min_detection_confidence)
    IN  IF model_enabled[c] /\ valid THEN result ELSE NoResult

\* len(result.boxes) of a kept result, else 0.
RawCount(c, f) == Len(KeptResult(c, f))

\* The count appended for the class before resolution.
\* A stabilizer whose count history starts afresh with every transfer.
StabilizedFrameCountPerTransfer(c, f) ==
    IF model_enabled[c]
    THEN StabilizedCount(IF current_transfer_active
                         THEN detection_history[c] ELSE <<>>,
                         RawCount(c, f))
    ELSE 0

StabilizedFrameCount(c, f) ==
    IF model_enabled[c]
    THEN StabilizedCount(detection_history[c], RawCount(c, f))
    ELSE 0

\* detections_by_class: a key for each class with a kept, non-empty result.
\* What the loops over enumerate(boxes_coords) append, class after class,
\* each detection with the raw box its bbox was mapped from:
\* <<class, bbox, confidence, class_id, xyxyn, conf, cls>>.
HandedToResolver(f, smoothed_bbox) ==
    LET of(c) ==
          LET result == KeptResult(c, f)
              positions == ValidPositions(result, smoothed_bbox[1],
                               smoothed_bbox[2], CropShape(f.roi_bbox),
                               FrameShape)
              boxes_coords == BoxesFromResultInFrame(result,
                                  smoothed_bbox[1], smoothed_bbox[2],
                                  CropShape(f.roi_bbox), FrameShape)
              idx == SelectSeq([i \in 1..Len(boxes_coords) |-> i],
                        LAMBDA i : IsDetectionInsideRoi(boxes_coords[i],
                                                        f.roi_bbox))
          IN  [k \in 1..Len(idx) |->
                  <<c, boxes_coords[idx[k]].bbox, result[idx[k]].conf,
                    IF c = "simbolos" THEN result[idx[k]].cls ELSE NoClassId,
                    result[positions[idx[k]]].xyxyn,
                    result[positions[idx[k]]].conf,
                    result[positions[idx[k]]].cls>>]
    IN  of("smudge") \o of("simbolos") \o of("blackdot")

DetectionsByClass(f, smoothed_bbox) ==
    [c \in {k \in ClassKeys : Len(KeptResult(k, f)) > 0} |->
        CollectInRoi(KeptResult(c, f),
                     BoxesFromResultInFrame(KeptResult(c, f),
                         smoothed_bbox[1], smoothed_bbox[2],
                         CropShape(f.roi_bbox), FrameShape),
                     f.roi_bbox, c = "simbolos")]

\* stats[c] at the end of the ROI branch: the stabilized counts, replaced by
\* the resolved counts when detections_by_class is not empty.
FrameCounts(f, smoothed_bbox) ==
    LET detections_by_class == DetectionsByClass(f, smoothed_bbox)
        filtered_detections == ResolveDetections(detections_by_class)
    IN  IF DOMAIN detections_by_class # {}
        THEN [c \in ClassKeys |->
                 IF c \in DOMAIN filtered_detections
                 THEN Len(filtered_detections[c]) ELSE 0]
        ELSE [c \in ClassKeys |-> StabilizedFrameCount(c, f)]

\* The OK/NO counts of the frame.
FrameOkNo(counts, simbolos_result) ==
    IF counts["simbolos"] > 0 /\ Len(simbolos_result) > 0
    THEN AnalyzeOkNoClasses(simbolos_result)
    ELSE [k \in OkNoKeys |-> 0]

\* The appends of a frame with a ROI without the one to the blackdot
\* sequence.
AppendFrameButBlackdot(cts, counts, ok_no) ==
    [k \in StatKeys |->
        IF k = "blackdot" THEN cts[k]
        ELSE Append(cts[k], IF k \in ClassKeys THEN counts[k] ELSE ok_no[k])]

\* The nine sequences after the appends of a frame with a ROI.
AppendFrame(cts, counts, ok_no) ==
    [k \in StatKeys |->
        Append(cts[k], IF k \in ClassKeys THEN counts[k] ELSE ok_no[k])]

\* Nothing is appended on a frame without ROI.
AppendNothing(cts) == cts

\* The OK/NO sequences get a zero, the class sequences nothing.
AppendOkNoZeros(cts) ==
    [k \in StatKeys |-> IF k \in OkNoKeys THEN Append(cts[k], 0) ELSE cts[k]]

(***************************************************************************)
(* extract_roi_from_segmentation.  What the segmentation gives for a frame *)
(* is the tuple <<raises, masks, confidence, area, bbox>>: whether an      *)
(* exception is raised on the way, the number of masks predicted, the      *)
(* confidence of the first box, the non-zero pixels of the combined mask   *)
(* and the bbox of its largest contour (NoBbox when there is no contour).  *)
(***************************************************************************)
Segmentation(raises, masks, confidence, area, bbox) ==
    <<raises, masks, confidence, area, bbox>>
SegRaises(seg) == seg[1]
SegMasks(seg) == seg[2]
SegConfidence(seg) == seg[3]
SegArea(seg) == seg[4]
SegBbox(seg) == seg[5]

NoMaskSeg == Segmentation(FALSE, 0, 0, 0, NoBbox)

\* The segmentation behind a frame in which the ROI is found: one mask that
\* fills its bbox.
SegOf(f) ==
    Segmentation(FALSE, 1, f.roi_confidence, f.roi_bbox[3] * f.roi_bbox[4],
                 f.roi_bbox)

\* extract_roi_from_segmentation without the roi_min_pixels test.
ExtractRoiAnyArea(seg) ==
    IF seg_model = "None" \/ ~model_enabled["seg"] THEN NoBbox
    ELSE IF SegRaises(seg) THEN NoBbox
    ELSE IF SegMasks(seg) = 0 THEN NoBbox
    ELSE SegBbox(seg)

\* The roi_bbox returned, NoBbox standing for None.
ExtractRoiFromSegmentation(seg) ==
    IF seg_model = "None" \/ ~model_enabled["seg"] THEN NoBbox
    ELSE IF SegRaises(seg) THEN NoBbox
    ELSE IF SegMasks(seg) = 0 THEN NoBbox
    ELSE IF SegArea(seg) < roi_min_pixels THEN NoBbox
    ELSE SegBbox(seg)

\* process_frame on a frame in which the ROI is found, seg being what the
\* segmentation gave.
FrameWithROIFrom(f, limit, seg) ==
    /\ frame_count < limit
    /\ \E counts \in {FrameCounts(f, SmoothBbox(bbox_history, f.roi_bbox,
                                                 f.roi_confidence))} :
       \E ok_no \in {FrameOkNo(counts, KeptResult("simbolos", f))} :
           /\ current_transfer_active' = TRUE
           /\ current_transfer_start_frame' =
                 IF ~current_transfer_active THEN frame_count
                 ELSE current_transfer_start_frame
           /\ current_transfer_frames' =
                 (IF ~current_transfer_active THEN 0
                  ELSE current_transfer_frames) + 1
           /\ frames_without_roi' = 0
           /\ last_roi_bbox' = f.roi_bbox
           /\ bbox_history' = SmoothedHistory(bbox_history, f.roi_bbox,
                                              f.roi_confidence)
           /\ detection_history' =
                 [c \in ClassKeys |->
                     IF model_enabled[c]
                     THEN StabilizedHistory(detection_history[c], RawCount(c, f))
                     ELSE detection_history[c]]
           /\ current_transfer_stats' =
                 AppendFrame(current_transfer_stats, counts, ok_no)
           /\ stats' = [smudge |-> counts["smudge"],
                        simbolos |-> counts["simbolos"],
                        blackdot |-> counts["blackdot"],
                        has_roi |-> TRUE,
                        transfer_count |-> transfer_count,
                        ok_no |-> ok_no,
                        approval_rate |-> ApprovalRate(transfer_stats)]
    /\ frame_count' = frame_count + 1
    /\ last_event' = IF current_transfer_active THEN "present" ELSE "open"
    /\ last_roi_frame' = frame_count + 1
    /\ transfers_opened' =
          transfers_opened + (IF ~current_transfer_active THEN 1 ELSE 0)
    /\ inferences_run' = {c \in ClassKeys : model_enabled[c]}
    /\ last_extraction' = <<seg>>
    /\ handed_to_resolver' =
          HandedToResolver(f, SmoothBbox(bbox_history, f.roi_bbox,
                                         f.roi_confidence))
    /\ scenario_a' = (scenario_a /\ frame_count < ScenarioPresent)
    /\ UNCHANGED <<session, ABSENT_TO_NEW, threads, seg_model, model_enabled, transfer_count,
                   transfer_stats, transfer_averages, closed_stats,
                   transfers_closed, stab_run, res_run>>

\* process_frame on a frame in which the ROI is found.
FrameWithROI(f, limit) == FrameWithROIFrom(f, limit, SegOf(f))

\* Closing one frame late, one frame early, and on the first absent frame.
ClosesTransferLate(absent_frames) ==
    current_transfer_active /\ absent_frames > ABSENT_TO_NEW
ClosesTransferEarly(absent_frames) ==
    current_transfer_active /\ absent_frames >= ABSENT_TO_NEW - 1
ClosesTransferAtOnce(absent_frames) == current_transfer_active

\* The test that closes the transfer on a frame without ROI.
ClosesTransfer(absent_frames) ==
    current_transfer_active /\ absent_frames >= ABSENT_TO_NEW

\* process_frame on a frame for which extract_roi_from_segmentation
\* returns None, seg being what the segmentation gave.
FrameWithoutROIBecause(limit, seg) ==
    /\ frame_count < limit
    /\ inferences_run' = {}
    /\ last_extraction' = <<seg>>
    /\ handed_to_resolver' = <<>>
    /\ frames_without_roi' = frames_without_roi + 1
    /\ IF ClosesTransfer(frames_without_roi + 1)
       THEN /\ FinalizeTransfer
            /\ transfer_count' = transfer_count + 1
            /\ current_transfer_active' = FALSE
            /\ current_transfer_frames' = 0
            /\ last_roi_bbox' = NoBbox
            /\ last_event' = "close"
            /\ transfers_closed' = transfers_closed + 1
       ELSE /\ current_transfer_stats' =
                  IF current_transfer_active
                  THEN AppendOkNoZeros(current_transfer_stats)
                  ELSE current_transfer_stats
            /\ last_event' = IF current_transfer_active THEN "absent"
                             ELSE "idle"
            /\ UNCHANGED <<transfer_count, current_transfer_active,
                           current_transfer_frames, last_roi_bbox,
                           transfer_stats, transfer_averages, closed_stats,
                           transfers_closed>>
    /\ stats' = [smudge |-> 0, simbolos |-> 0, blackdot |-> 0,
                 has_roi |-> FALSE, transfer_count |-> transfer_count,
                 ok_no |-> [k \in OkNoKeys |-> 0],
                 approval_rate |-> ApprovalRate(transfer_stats')]
    /\ frame_count' = frame_count + 1
    /\ scenario_a' = (scenario_a /\ frame_count >= ScenarioPresent
                      /\ frame_count < ScenarioPresent + ScenarioAbsent)
    /\ UNCHANGED <<session, ABSENT_TO_NEW, threads, seg_model, model_enabled,
                   current_transfer_start_frame, stabilizer, last_roi_frame,
                   transfers_opened, stab_run, res_run>>

\* process_frame on a frame in which the segmentation finds no mask.
FrameWithoutROI(limit) == FrameWithoutROIBecause(limit, NoMaskSeg)

(***************************************************************************)
(* Frames fed to the pipeline.  The ROI is the 100 x 100 square at         *)
(* (20, 20), so 10 per-mille of the crop is one pixel.                     *)
(***************************************************************************)
RoiBox == <<20, 20, 100, 100>>

RawBox(x1, y1, x2, y2, conf, cls) ==
    [xyxyn |-> <<x1, y1, x2, y2>>, conf |-> conf, cls |-> cls, in_mask |-> TRUE]

NoResults == [c \in ClassKeys |-> NoResult]

FrameOf(results) ==
    [roi_bbox |-> RoiBox, roi_confidence |-> 90, results |-> results]

\* A ROI in which no sub-detector finds anything.
EmptyFrame == FrameOf(NoResults)

\* One smudge, away from everything else.
SmudgeFrame ==
    FrameOf([NoResults EXCEPT
        !["smudge"] = <<RawBox(600, 600, 900, 900, 80, 0)>>])

\* A smudge on top of a blackdot.
SmudgeOnBlackdotFrame ==
    FrameOf([NoResults EXCEPT
        !["smudge"] = <<RawBox(300, 300, 600, 600, 90, 0)>>,
        !["blackdot"] = <<RawBox(100, 100, 400, 400, 60, 0)>>])

\* Two symbols (FIFA_OK and Simbolo_NO), the second on top of a blackdot.
SimbolosFrame ==
    FrameOf([NoResults EXCEPT
        !["simbolos"] = <<RawBox(600, 100, 900, 400, 85, 1),
                          RawBox(200, 200, 500, 500, 70, 2)>>,
        !["blackdot"] = <<RawBox(100, 100, 400, 400, 60, 0)>>])

\* One detection of each class, away from each other (a Simbolo_OK).
AllClassesFrame ==
    FrameOf([NoResults EXCEPT
        !["smudge"] = <<RawBox(600, 600, 900, 900, 80, 0)>>,
        !["simbolos"] = <<RawBox(100, 600, 400, 900, 85, 3)>>,
        !["blackdot"] = <<RawBox(100, 100, 400, 400, 60, 0)>>])

\* Three blackdots away from each other.
ThreeBlackdotsFrame ==
    FrameOf([NoResults EXCEPT
        !["blackdot"] = <<RawBox(100, 100, 300, 300, 60, 0),
                          RawBox(400, 100, 600, 300, 60, 0),
                          RawBox(700, 100, 900, 300, 60, 0)>>])

\* The ROI found elsewhere, with one smudge in it.
ShiftedSmudgeFrame ==
    [roi_bbox |-> <<40, 20, 100, 120>>, roi_confidence |-> 90,
     results |-> [NoResults EXCEPT
        !["smudge"] = <<RawBox(600, 600, 900, 900, 80, 0)>>]]

\* An empty ROI found with a confidence below bbox_confidence_threshold.
LowConfidenceFrame ==
    [roi_bbox |-> RoiBox, roi_confidence |-> 20, results |-> NoResults]

FrameInputs == {EmptyFrame, SmudgeFrame, SmudgeOnBlackdotFrame, SimbolosFrame}
TrackInputs == {EmptyFrame}
ApprovalInputs == {EmptyFrame, SmudgeFrame, AllClassesFrame}
SessionInputs == {EmptyFrame, SimbolosFrame}
HistoryInputs == {EmptyFrame, SmudgeFrame}
MeanInputs == {EmptyFrame, SmudgeFrame, ThreeBlackdotsFrame}
WindowInputs == {EmptyFrame, ShiftedSmudgeFrame, LowConfidenceFrame}

(***************************************************************************)
(* Spec: the pipeline on short runs of frames with detections, with        *)
(* transfer.absent_to_new configured to SmallAbsentToNew.                  *)
(***************************************************************************)
Init == Fresh(SmallAbsentToNew) /\ NoSession /\ NoStabRun /\ NoResRun

PresentFrame == \E f \in FrameInputs : FrameWithROI(f, MaxFrames)

AbsentFrame == FrameWithoutROI(MaxFrames)

Next == PresentFrame \/ AbsentFrame

Spec == Init /\ [][Next]_vars

(***************************************************************************)
(* SpecTrack: the transfer tracker under the default absent_to_new on long *)
(* runs of frames in which the sub-detectors find nothing.                 *)
(***************************************************************************)
InitTrack == Fresh(DEFAULT_ABSENT_TO_NEW) /\ NoSession /\ NoStabRun /\ NoResRun

\* At most MaxTransfers transfers are begun: no frame with a ROI arrives once
\* the last of them has closed.
TrackPresentFrame ==
    /\ current_transfer_active \/ transfer_count < MaxTransfers
    /\ \E f \in TrackInputs : FrameWithROI(f, TrackFrames)

TrackAbsentFrame == FrameWithoutROI(TrackFrames)

NextTrack == TrackPresentFrame \/ TrackAbsentFrame

SpecTrack == InitTrack /\ [][NextTrack]_vars

(***************************************************************************)
(* SpecApproval: one transfer of ApprovalFrames frames with a ROI, closed  *)
(* by SmallAbsentToNew frames without one.                                 *)
(***************************************************************************)
InitApproval == Fresh(SmallAbsentToNew) /\ NoSession /\ NoStabRun /\ NoResRun

ApprovalPresentFrame ==
    \E f \in ApprovalInputs : FrameWithROI(f, ApprovalFrames)

ApprovalAbsentFrame ==
    /\ frame_count >= ApprovalFrames
    /\ FrameWithoutROI(ApprovalFrames + SmallAbsentToNew)

NextApproval == ApprovalPresentFrame \/ ApprovalAbsentFrame

SpecApproval == InitApproval /\ [][NextApproval]_vars

(***************************************************************************)
(* One transfer of ApprovalFrames frames in which a class can be counted   *)
(* several times in a frame.                                               *)
(***************************************************************************)
InitMean == Fresh(SmallAbsentToNew) /\ NoSession /\ NoStabRun /\ NoResRun

MeanPresentFrame ==
    \E f \in MeanInputs : FrameWithROI(f, ApprovalFrames)

MeanAbsentFrame ==
    /\ frame_count >= ApprovalFrames
    /\ FrameWithoutROI(ApprovalFrames + SmallAbsentToNew)

NextMean == MeanPresentFrame \/ MeanAbsentFrame

SpecMean == InitMean /\ [][NextMean]_vars

(***************************************************************************)
(* A run of frames with a ROI, long enough to fill both histories.         *)
(***************************************************************************)
InitWindow == Fresh(SmallAbsentToNew) /\ NoSession /\ NoStabRun /\ NoResRun

WindowPresentFrame ==
    \E f \in WindowInputs : FrameWithROI(f, WindowFrames)

NextWindow == WindowPresentFrame

SpecWindow == InitWindow /\ [][NextWindow]_vars

(***************************************************************************)
(* Frames whose segmentation can fail, on a detector whose models are      *)
(* enabled and disabled between frames.                                    *)
(***************************************************************************)
GoodSeg == SegOf(EmptyFrame)
RaisingSeg == [GoodSeg EXCEPT ![1] = TRUE]
SmallSeg == [GoodSeg EXCEPT ![4] = 1500]
NoContourSeg == [GoodSeg EXCEPT ![5] = NoBbox]
SegInputs == {GoodSeg, RaisingSeg, NoMaskSeg, SmallSeg, NoContourSeg}
ControlResults == {AllClassesFrame.results}

InitControls ==
    /\ \E seg \in {"None", "loaded"} : FreshDetector(SmallAbsentToNew, seg)
    /\ NoSession /\ NoStabRun /\ NoResRun

\* set_model_enabled(model_name, enabled)
SetModelEnabled(model_name, enabled) ==
    /\ model_enabled' =
          IF model_name \in DOMAIN model_enabled
          THEN [model_enabled EXCEPT ![model_name] = enabled]
          ELSE model_enabled
    /\ UNCHANGED <<session, ABSENT_TO_NEW, threads, seg_model, tracker, stabilizer,
                   aggregate, stats, observers, stab_run, res_run>>

\* process_frame on a frame with the given segmentation and sub-detector
\* results.
ProcessFrame(seg, results, limit) ==
    LET roi_bbox == ExtractRoiFromSegmentation(seg)
    IN  IF roi_bbox # NoBbox
        THEN FrameWithROIFrom([roi_bbox |-> roi_bbox,
                               roi_confidence |-> SegConfidence(seg),
                               results |-> results], limit, seg)
        ELSE FrameWithoutROIBecause(limit, seg)

ControlledFrame ==
    \E seg \in SegInputs : \E results \in ControlResults :
        ProcessFrame(seg, results, ControlFrames)

NextControls ==
    \/ \E model_name \in ModelKeys : \E enabled \in BOOLEAN :
          SetModelEnabled(model_name, enabled)
    \/ ControlledFrame

SpecControls == InitControls /\ [][NextControls]_vars

(***************************************************************************)
(* SpecStab: calls of _stabilize_detection_count for one class, with raw   *)
(* counts in 0..MaxCount.                                                  *)
(***************************************************************************)
InitStab ==
    /\ Fresh(DEFAULT_ABSENT_TO_NEW)
    /\ stab_class \in ClassKeys
    /\ stab_outputs = <<>>
    /\ NoSmoothRun
    /\ NoResultRun
    /\ NoResRun
    /\ NoSession

\* _stabilize_detection_count(stab_class, current_count), for the first
\* limit calls.
StabilizeWithin(current_count, limit) ==
    /\ Len(stab_outputs) < limit
    /\ detection_history' =
          [detection_history EXCEPT
              ![stab_class] = StabilizedHistory(@, current_count)]
    /\ stab_outputs' =
          Append(stab_outputs,
                 StabilizedCount(detection_history[stab_class], current_count))
    /\ UNCHANGED <<session, ABSENT_TO_NEW, threads, seg_model, model_enabled, tracker, bbox_history,
                   aggregate, stats, observers, stab_class, smooth_inputs,
                   smooth_outputs, raw_result, last_call, res_run>>

StabilizeCall(current_count) == StabilizeWithin(current_count, MaxCalls)

NextStab == \E current_count \in 0..MaxCount : StabilizeCall(current_count)

SpecStab == InitStab /\ [][NextStab]_vars

(***************************************************************************)
(* A steady class disturbed by noise: every call gives the steady count or *)
(* the noisy one.                                                          *)
(***************************************************************************)
NoiseCounts == {2, 8}

NoisyStabilizeCall ==
    \E current_count \in NoiseCounts :
        StabilizeWithin(current_count, NoiseCalls)

NextNoise == NoisyStabilizeCall

SpecNoise == InitStab /\ [][NextNoise]_vars

(***************************************************************************)
(* The first calls of the two smoothing functions: a few counts for one    *)
(* class, and a few ROI bboxes of high or low confidence.                  *)
(***************************************************************************)
SmoothBoxes == {<<20, 20, 100, 100>>, <<40, 20, 100, 120>>}
SmoothConfidences == {20, 90}

\* _smooth_bbox(current_bbox, confidence)
SmoothCall(current_bbox, confidence) ==
    /\ Len(smooth_outputs) < BboxCalls
    /\ bbox_history' = SmoothedHistory(bbox_history, current_bbox, confidence)
    /\ smooth_outputs' =
          Append(smooth_outputs,
                 SmoothBbox(bbox_history, current_bbox, confidence))
    /\ smooth_inputs' =
          Append(smooth_inputs,
                 [bbox |-> current_bbox, confidence |-> confidence])
    /\ UNCHANGED <<session, ABSENT_TO_NEW, threads, seg_model, model_enabled, tracker,
                   detection_history, aggregate, stats, observers,
                   stab_class, stab_outputs, raw_result, last_call, res_run>>

FirstStabilizeCall ==
    \E current_count \in 0..MaxCount :
        StabilizeWithin(current_count, FirstCalls)

NextSmoothing ==
    \/ FirstStabilizeCall
    \/ \E current_bbox \in SmoothBoxes : \E confidence \in SmoothConfidences :
          SmoothCall(current_bbox, confidence)

SpecSmoothing == InitStab /\ [][NextSmoothing]_vars

(***************************************************************************)
(* SpecResult: a raw result of at most MaxBoxes boxes is put together and  *)
(* given to the strict validator, as process_frame does for the smudge     *)
(* model, or to the mapping from crop to frame.  The crop is 200 x 200, so *)
(* that 5 thousandths of it are one pixel.                                 *)
(***************************************************************************)
ResultRoi == <<0, 0, 200, 200>>

\* Boxes of 24 to 151 pixels and of width / height from 25/84 to 91/30, as
\* <<width, height>> in pixels.
FifaSizes ==
    { <<24, 50>>, <<50, 24>>, <<25, 25>>, <<50, 50>>, <<150, 150>>,
      <<151, 100>>, <<100, 151>>, <<30, 100>>, <<25, 84>>, <<90, 30>>,
      <<91, 30>> }

FifaBoxes ==
    { RawBox(100, 100, 100 + 5 * sz[1], 100 + 5 * sz[2], conf, 0) :
        sz \in FifaSizes, conf \in {69, 70} }

\* Boxes that map to 9, 10, 60, 160 and 161 pixels of width, one with
\* x2 < x1 and one of no width.
MappedBoxes ==
    { RawBox(100, 100, 400, 400, 80, 0), RawBox(100, 100, 145, 400, 80, 0),
      RawBox(100, 100, 150, 400, 80, 0), RawBox(0, 0, 800, 800, 80, 0),
      RawBox(0, 0, 805, 800, 80, 0), RawBox(400, 100, 100, 400, 80, 0),
      RawBox(300, 300, 300, 600, 80, 0) }

ResultOffsets == {0, 150}

InitResult ==
    Fresh(DEFAULT_ABSENT_TO_NEW) /\ NoSession /\ NoStabRun /\ NoResRun

\* One more box in result.boxes.
AddBox(box) ==
    /\ Len(raw_result) < MaxBoxes
    /\ raw_result' = Append(raw_result, box)
    /\ last_call' = <<>>
    /\ UNCHANGED <<session, ABSENT_TO_NEW, threads, seg_model, model_enabled, tracker,
                   stabilizer, aggregate, stats, observers, stab_class,
                   stab_outputs, smooth_inputs, smooth_outputs, res_run>>

\* smudge_result and smudge_count after _validate_fifa_detection, before
\* the stabilizer.
ValidateFifaCall ==
    LET f == [roi_bbox |-> ResultRoi, roi_confidence |-> 90,
              results |-> [NoResults EXCEPT !["smudge"] = raw_result]]
    IN  /\ last_call' =
              <<[method |-> "_validate_fifa_detection",
                 result |-> raw_result,
                 returned |-> ValidateFifaDetection(raw_result,
                                  fifa_min_confidence, CropShape(f.roi_bbox)),
                 smudge_result |-> KeptResult("smudge", f),
                 smudge_count |-> RawCount("smudge", f)]>>
        /\ UNCHANGED <<session, ABSENT_TO_NEW, threads, seg_model, model_enabled,
                       tracker, stabilizer, aggregate, stats, observers,
                       stab_class, stab_outputs, smooth_inputs,
                       smooth_outputs, raw_result, res_run>>

\* boxes_from_result_in_frame(result, x0, y0, crop_shape, frame_shape)
BoxesInFrameCall(x0, y0) ==
    /\ last_call' =
          <<[method |-> "boxes_from_result_in_frame",
             result |-> raw_result,
             x0 |-> x0, y0 |-> y0,
             returned |-> BoxesFromResultInFrame(raw_result, x0, y0,
                              CropShape(ResultRoi), FrameShape)]>>
    /\ UNCHANGED <<session, ABSENT_TO_NEW, threads, seg_model, model_enabled,
                   tracker, stabilizer, aggregate, stats, observers,
                   stab_class, stab_outputs, smooth_inputs,
                   smooth_outputs, raw_result, res_run>>

NextResult ==
    \/ \E box \in FifaBoxes \cup MappedBoxes : AddBox(box)
    \/ ValidateFifaCall
    \/ \E x0 \in ResultOffsets : \E y0 \in ResultOffsets :
          BoxesInFrameCall(x0, y0)

SpecResult == InitResult /\ [][NextResult]_vars

(***************************************************************************)
(* SpecGeometry: the two geometry utilities are called once, on any pair   *)
(* of well-formed integer boxes (x1 < x2, y1 < y2) of a small grid.        *)
(***************************************************************************)
GridMax == 3

GridBoxes ==
    {<<x1, y1, x2, y2>> : x1 \in 0..GridMax, y1 \in 0..GridMax,
                          x2 \in 0..GridMax, y2 \in 0..GridMax}

WellFormedBoxes == {b \in GridBoxes : b[1] < b[3] /\ b[2] < b[4]}

InitGeometry == InitResult

\* _is_box_completely_outside(box1, box2), _is_box_completely_outside(box2,
\* box1) and _calculate_iou(box1, box2) on the same pair.
CompareBoxes(box1, box2) ==
    /\ last_call = <<>>
    /\ last_call' =
          <<[method |-> "_is_box_completely_outside",
             box1 |-> box1, box2 |-> box2,
             returned |-> IsBoxCompletelyOutside(box1, box2),
             swapped |-> IsBoxCompletelyOutside(box2, box1),
             iou |-> CalculateIou(box1, box2)]>>
    /\ UNCHANGED <<session, ABSENT_TO_NEW, threads, seg_model, model_enabled,
                   tracker, stabilizer, aggregate, stats, observers,
                   stab_class, stab_outputs, smooth_inputs,
                   smooth_outputs, raw_result, res_run>>

NextGeometry ==
    \E box1 \in WellFormedBoxes : \E box2 \in WellFormedBoxes :
        CompareBoxes(box1, box2)

SpecGeometry == InitGeometry /\ [][NextGeometry]_vars

(***************************************************************************)
(* SpecResolver: one frame's detections are collected by class, at most    *)
(* MaxDets of them, and resolved in two stages.  Each detection sits on    *)
(* one of a few spots (a bbox with a confidence); the spots overlap each   *)
(* other with IOU 0.5, 0.2, 0.14, 0.05 and 0.005, or only touch.           *)
(***************************************************************************)
Spots ==
    { [bbox |-> <<0, 0, 10, 10>>, confidence |-> 90],
      [bbox |-> <<5, 5, 15, 15>>, confidence |-> 60],
      [bbox |-> <<0, 0, 20, 10>>, confidence |-> 75],
      [bbox |-> <<8, 5, 18, 15>>, confidence |-> 90],
      [bbox |-> <<9, 9, 19, 19>>, confidence |-> 60],
      [bbox |-> <<10, 0, 20, 10>>, confidence |-> 80] }

\* FIFA_OK and Simbolo_OK for the simbolos model, no class_id for the others.
ClassIdsOf(c) == IF c = "simbolos" THEN {1, 3} ELSE {NoClassId}

DetectionsOf(c) ==
    { [bbox |-> sp.bbox, confidence |-> sp.confidence, class_id |-> id] :
        sp \in Spots, id \in ClassIdsOf(c) }

\* detections_by_class = {} before the detections of the frame are collected.
InitResolver ==
    /\ Fresh(DEFAULT_ABSENT_TO_NEW)
    /\ NoStabRun
    /\ NoSession
    /\ res_phase = "input"
    /\ res_input = <<>>
    /\ res_exclusive = <<>>
    /\ res_output = <<>>

TotalDetections(d) ==
    LET len(c) == IF c \in DOMAIN d THEN Len(d[c]) ELSE 0
    IN  len("smudge") + len("simbolos") + len("blackdot")

\* detections_by_class[class_name] = dets, the other keys as they are.
WithList(d, class_name, dets) ==
    [c \in DOMAIN d \cup {class_name} |-> IF c = class_name THEN dets ELSE d[c]]

\* A detection inside the ROI is appended to the list of its class.
CollectDetection(class_name, detection) ==
    /\ res_phase = "input"
    /\ TotalDetections(res_input) < MaxDets
    /\ res_input' =
          WithList(res_input, class_name,
                   Append(IF class_name \in DOMAIN res_input
                          THEN res_input[class_name] ELSE <<>>, detection))
    /\ UNCHANGED <<session, ABSENT_TO_NEW, threads, seg_model, model_enabled, tracker, stabilizer,
                   aggregate, stats, observers, stab_run, res_phase,
                   res_exclusive, res_output>>

\* A class whose result has boxes, none of them inside the ROI: its key is
\* there with an empty list.
CollectNothing(class_name) ==
    /\ res_phase = "input"
    /\ class_name \notin DOMAIN res_input
    /\ res_input' = WithList(res_input, class_name, <<>>)
    /\ UNCHANGED <<session, ABSENT_TO_NEW, threads, seg_model, model_enabled, tracker, stabilizer,
                   aggregate, stats, observers, stab_run, res_phase,
                   res_exclusive, res_output>>

\* if detections_by_class: the two passes.
Resolve ==
    /\ res_phase = "input"
    /\ DOMAIN res_input # {}
    /\ res_phase' = "resolved"
    /\ res_exclusive' = ApplyExclusiveFiltering(res_input)
    /\ res_output' = ResolveDetections(res_input)
    /\ UNCHANGED <<session, ABSENT_TO_NEW, threads, seg_model, model_enabled, tracker, stabilizer,
                   aggregate, stats, observers, stab_run, res_input>>

NextResolver ==
    \/ \E class_name \in ClassKeys :
          \E detection \in DetectionsOf(class_name) :
             CollectDetection(class_name, detection)
    \/ \E class_name \in ClassKeys : CollectNothing(class_name)
    \/ Resolve

SpecResolver == InitResolver /\ [][NextResolver]_vars

(***************************************************************************)
(* get_final_statistics_summary.                                           *)
(***************************************************************************)
\* Sum over the history of objects_detected[kind][field].
HistoryTotal(transfer_history, kind, field) ==
    SumSeq([i \in 1..Len(transfer_history) |->
               transfer_history[i].objects_detected[kind][field]])

\* Number of transfers of the history in which the kind was detected.
HistoryCount(transfer_history, kind) ==
    Cardinality({i \in 1..Len(transfer_history) :
                    transfer_history[i].objects_detected[kind].total > 0})

\* The keys of error_counts, in the order of the dict.
ErrorOrder == <<"fifa_no", "simbolo_no", "string_no", "smudge", "blackdot">>

ErrorCounts(transfer_history) ==
    [fifa_no |-> HistoryTotal(transfer_history, "fifa", "no"),
     simbolo_no |-> HistoryTotal(transfer_history, "simbolo", "no"),
     string_no |-> HistoryTotal(transfer_history, "string", "no"),
     smudge |-> HistoryTotal(transfer_history, "smudge", "total"),
     blackdot |-> HistoryTotal(transfer_history, "blackdot", "total")]

\* The last key with the largest count.
LastLargestErrorClass(error_counts) ==
    LET largest == CHOOSE m \in {error_counts[k] : k \in DOMAIN error_counts} :
                      \A k \in DOMAIN error_counts : error_counts[k] <= m
        last == CHOOSE i \in 1..Len(ErrorOrder) :
                   /\ error_counts[ErrorOrder[i]] = largest
                   /\ \A j \in (i + 1)..Len(ErrorOrder) :
                         error_counts[ErrorOrder[j]] # largest
    IN  ErrorOrder[last]

\* max(error_counts, key=error_counts.get): the first key with the largest
\* count.
MostFrequentErrorClass(error_counts) ==
    LET largest == CHOOSE m \in {error_counts[k] : k \in DOMAIN error_counts} :
                      \A k \in DOMAIN error_counts : error_counts[k] <= m
        first == CHOOSE i \in 1..Len(ErrorOrder) :
                    /\ error_counts[ErrorOrder[i]] = largest
                    /\ \A j \in 1..(i - 1) : error_counts[ErrorOrder[j]] # largest
    IN  ErrorOrder[first]

class_name_map ==
    [fifa_no |-> "FIFA", simbolo_no |-> "Simbolo", string_no |-> "String",
     smudge |-> "Smudge", blackdot |-> "BlackDot"]

\* The most frequent error with the percentage computed whatever the total.
MostFrequentErrorUnguarded(error_counts) ==
    LET class == MostFrequentErrorClass(error_counts)
        total_errors == SumSeq([i \in 1..Len(ErrorOrder) |->
                                   error_counts[ErrorOrder[i]]])
    IN  [class |-> class_name_map[class],
         type |-> IF class \in {"fifa_no", "simbolo_no", "string_no"}
                  THEN "NO" ELSE "Erro",
         count |-> error_counts[class],
         percentage |-> <<error_counts[class] * 100, total_errors>>]

MostFrequentError(error_counts) ==
    LET class == MostFrequentErrorClass(error_counts)
        total_errors == SumSeq([i \in 1..Len(ErrorOrder) |->
                                   error_counts[ErrorOrder[i]]])
    IN  [class |-> class_name_map[class],
         type |-> IF class \in {"fifa_no", "simbolo_no", "string_no"}
                  THEN "NO" ELSE "Erro",
         count |-> error_counts[class],
         percentage |-> IF total_errors > 0
                        THEN <<error_counts[class] * 100, total_errors>>
                        ELSE <<0, 1>>]

OkNoSummary(transfer_history, kind) ==
    [count |-> HistoryCount(transfer_history, kind),
     total_objects |-> HistoryTotal(transfer_history, kind, "total"),
     ok |-> HistoryTotal(transfer_history, kind, "ok"),
     no |-> HistoryTotal(transfer_history, kind, "no")]

PlainSummary(transfer_history, kind) ==
    [count |-> HistoryCount(transfer_history, kind),
     total_objects |-> HistoryTotal(transfer_history, kind, "total")]

ObjectsOfTransfer(transfer) ==
    LET od == transfer.objects_detected
    IN  [transfer_id |-> transfer.transfer_id,
         blackdot |-> od.blackdot.total,
         smudge |-> od.smudge.total,
         fifa |-> [ok |-> od.fifa.ok, no |-> od.fifa.no],
         simbolo |-> [ok |-> od.simbolo.ok, no |-> od.simbolo.no],
         string |-> [ok |-> od.string.ok, no |-> od.string.no]]

FinalStatisticsSummary(transfer_history) ==
    IF Len(transfer_history) = 0
    THEN [total_transfers_evaluated |-> 0,
          transfers_by_class |-> <<>>,
          most_frequent_error |->
             [class |-> "Nenhuma", type |-> "N/A", count |-> 0,
              percentage |-> <<0, 1>>],
          objects_per_transfer |-> <<>>]
    ELSE [total_transfers_evaluated |-> Len(transfer_history),
          transfers_by_class |->
             [blackdot |-> PlainSummary(transfer_history, "blackdot"),
              smudge |-> PlainSummary(transfer_history, "smudge"),
              fifa |-> OkNoSummary(transfer_history, "fifa"),
              simbolo |-> OkNoSummary(transfer_history, "simbolo"),
              string |-> OkNoSummary(transfer_history, "string")],
          most_frequent_error |->
             MostFrequentError(ErrorCounts(transfer_history)),
          objects_per_transfer |->
             [i \in 1..Len(transfer_history) |->
                 ObjectsOfTransfer(transfer_history[i])]]

(***************************************************************************)
(* SpecSession: the application starts and stops the session around the    *)
(* frames; the inference loop processes frames only while running.         *)
(***************************************************************************)
InitSession ==
    Fresh(SmallAbsentToNew) /\ NoSession /\ NoStabRun /\ NoResRun

\* YOLODetectionApp.start
Start ==
    /\ ~running
    /\ running' = TRUE
    /\ UNCHANGED <<final_summary, ABSENT_TO_NEW, threads, seg_model, model_enabled, tracker,
                   stabilizer, aggregate, stats, observers, stab_run,
                   res_run>>

\* YOLODetectionApp.stop, with the summary _display_final_statistics gets.
Stop ==
    /\ running
    /\ running' = FALSE
    /\ final_summary' =
          <<FinalStatisticsSummary(transfer_stats.transfer_history)>>
    /\ UNCHANGED <<ABSENT_TO_NEW, threads, seg_model, model_enabled, tracker, stabilizer,
                   aggregate, stats, observers, stab_run, res_run>>

SessionPresentFrame ==
    /\ running
    /\ \E f \in SessionInputs : FrameWithROI(f, SessionFrames)

SessionAbsentFrame == running /\ FrameWithoutROI(SessionFrames)

NextSession ==
    Start \/ Stop \/ SessionPresentFrame \/ SessionAbsentFrame

SpecSession == InitSession /\ [][NextSession]_vars

(***************************************************************************)
(* SpecMapping: frames whose simbolos result has a box too narrow for      *)
(* _validate_bbox (4 pixels) in front of a FIFA_OK of 30 x 30 pixels.      *)
(***************************************************************************)
NarrowFirstFrame ==
    FrameOf([NoResults EXCEPT
        !["simbolos"] = <<RawBox(100, 100, 145, 400, 60, 2),
                          RawBox(500, 500, 800, 800, 90, 1)>>])

MappingInputs == {EmptyFrame, NarrowFirstFrame}

InitMapping ==
    Fresh(SmallAbsentToNew) /\ NoSession /\ NoStabRun /\ NoResRun

MappingPresentFrame ==
    \E f \in MappingInputs : FrameWithROI(f, MappingFrames)

MappingAbsentFrame == FrameWithoutROI(MappingFrames)

NextMapping == MappingPresentFrame \/ MappingAbsentFrame

SpecMapping == InitMapping /\ [][NextMapping]_vars

(***************************************************************************)
(* SpecQueue: the capture thread (BaslerCamera._grab_loop) and the         *)
(* inference thread (YOLODetectionApp._inference_loop) around frame_queue. *)
(* Frames are numbered in the order grab_frame returns them; the methods   *)
(* of queue.Queue are atomic, everything between them interleaves.  The    *)
(* inference thread holds a frame from get_frame until it has processed    *)
(* or skipped it: it holds one when it has received more frames than it    *)
(* has skipped and the detector has counted.                               *)
(***************************************************************************)
Holding == Len(received) - Cardinality(skipped) > frame_count

\* What the camera sees in the frame of a number: every third frame has no
\* ROI.
FrameHasRoi(number) == number % 3 # 0

InitQueue ==
    Fresh(SmallAbsentToNew) /\ NoSession /\ NoStabRun /\ NoResRun

\* frame_queue after put_nowait(frame) without room.
PutAnyway(queue, frame) == Append(queue, frame)

\* frame_queue after put_nowait(frame); queue.Full leaves it as it is.
PutNowait(queue, frame) ==
    IF Len(queue) < QUEUE_MAXSIZE THEN Append(queue, frame) ELSE queue

\* _grab_loop: frame = self.grab_frame(), a frame.
GrabFrame ==
    /\ running
    /\ grabbed = <<>>
    /\ captured < QueueCaptures
    /\ captured' = captured + 1
    /\ grabbed' = <<captured + 1>>
    /\ UNCHANGED <<session, ABSENT_TO_NEW, frame_queue, discarded, received,
                   skipped, ui_paused, seg_model, model_enabled, tracker,
                   stabilizer, aggregate, stats, observers, stab_run,
                   res_run>>

\* _grab_loop: self.frame_queue.put_nowait(frame), except queue.Full: pass.
PutFrame ==
    /\ grabbed # <<>>
    /\ frame_queue' = PutNowait(frame_queue, grabbed[1])
    /\ discarded' = IF Len(frame_queue) < QUEUE_MAXSIZE THEN discarded
                    ELSE Append(discarded, grabbed[1])
    /\ grabbed' = <<>>
    /\ UNCHANGED <<session, ABSENT_TO_NEW, captured, received, skipped,
                   ui_paused, seg_model, model_enabled, tracker, stabilizer,
                   aggregate, stats, observers, stab_run, res_run>>

\* _inference_loop: frame = self.camera.get_frame(timeout=0.1), a frame.
GetFrame ==
    /\ running
    /\ ~Holding
    /\ frame_queue # <<>>
    /\ received' = Append(received, Head(frame_queue))
    /\ frame_queue' = Tail(frame_queue)
    /\ UNCHANGED <<session, ABSENT_TO_NEW, captured, grabbed, discarded,
                   skipped, ui_paused, seg_model, model_enabled, tracker,
                   stabilizer, aggregate, stats, observers, stab_run,
                   res_run>>

\* _inference_loop: if self.ui.is_paused(): continue.
SkipPaused ==
    /\ Holding
    /\ ui_paused
    /\ skipped' = skipped \cup {Len(received)}
    /\ UNCHANGED <<session, ABSENT_TO_NEW, frame_queue, captured, grabbed,
                   discarded, received, ui_paused, seg_model, model_enabled,
                   tracker, stabilizer, aggregate, stats, observers,
                   stab_run, res_run>>

\* _inference_loop: self.detector.process_frame(frame).
ProcessReceived ==
    /\ Holding
    /\ ~ui_paused
    /\ IF FrameHasRoi(received[Len(received)])
       THEN FrameWithROI(EmptyFrame, QueueCaptures)
       ELSE FrameWithoutROI(QueueCaptures)

\* The operator pauses or resumes in the UI.
TogglePause ==
    /\ ui_paused' = ~ui_paused
    /\ UNCHANGED <<session, ABSENT_TO_NEW, frame_queue, captured, grabbed,
                   discarded, received, skipped, seg_model, model_enabled,
                   tracker, stabilizer, aggregate, stats, observers,
                   stab_run, res_run>>

\* YOLODetectionApp.stop once both threads have left their loops.
StopThreads == ~Holding /\ grabbed = <<>> /\ Stop

NextQueue ==
    \/ Start
    \/ StopThreads
    \/ GrabFrame
    \/ PutFrame
    \/ GetFrame
    \/ SkipPaused
    \/ ProcessReceived
    \/ TogglePause

SpecQueue == InitQueue /\ [][NextQueue]_vars

(***************************************************************************)
(* A long-running detector.  The run starts after PriorClosures transfers  *)
(* of one empty frame each have been closed (a frame with the ROI, then    *)
(* ABSENT_TO_NEW frames without it), which is where a fresh detector is    *)
(* after (ABSENT_TO_NEW + 1) * PriorClosures such frames.                  *)
(***************************************************************************)
Zeros(len) == [i \in 1..len |-> 0]

\* The nine sequences the closure of such a transfer reads: one entry in the
\* class sequences, one per frame before the closing one in the OK/NO ones.
EmptyTransferStats(n) ==
    [k \in StatKeys |-> IF k \in ClassKeys THEN Zeros(1) ELSE Zeros(n)]

AfterClosures(k, n) ==
    LET kept == Min(k, HISTORY_CAP)
    IN  /\ ABSENT_TO_NEW = n
        /\ seg_model = "loaded"
        /\ model_enabled = [m \in ModelKeys |-> TRUE]
        /\ transfer_count = k
        /\ frames_without_roi = n
        /\ last_roi_bbox = NoBbox
        /\ current_transfer_active = FALSE
        /\ current_transfer_start_frame = (n + 1) * (k - 1)
        /\ current_transfer_frames = 0
        /\ frame_count = (n + 1) * k
        /\ detection_history =
              [c \in ClassKeys |->
                  Zeros(Min(k, stabilization_window))]
        /\ bbox_history =
              IF EmptyFrame.roi_confidence < bbox_confidence_threshold
              THEN <<>>
              ELSE [i \in 1..Min(k, bbox_smoothing_frames) |->
                       EmptyFrame.roi_bbox]
        /\ transfer_stats =
              [total_evaluated |-> k, total_approved |-> k,
               total_rejected |-> 0,
               transfer_history |->
                  [i \in 1..kept |->
                      TransferRecord(EmptyTransferStats(n), k - kept + i - 1,
                                     1, (n + 1) * (k - kept + i - 1))]]
        /\ current_transfer_stats = EmptyStats
        /\ transfer_averages = FinalAverages(EmptyTransferStats(n))
        /\ stats = [InitialStats EXCEPT
                       !.transfer_count = k - 1,
                       !.approval_rate = ApprovalRate(transfer_stats)]
        /\ last_event = "close"
        /\ last_roi_frame = (n + 1) * (k - 1) + 1
        /\ scenario_a = FALSE
        /\ closed_stats = EmptyTransferStats(n)
        /\ transfers_opened = k
        /\ transfers_closed = k
        /\ inferences_run = {}
        /\ last_extraction = <<NoMaskSeg>>
        /\ handed_to_resolver = <<>>

InitHistory ==
    /\ AfterClosures(PriorClosures, SmallAbsentToNew)
    /\ NoSession /\ NoStabRun /\ NoResRun

HistoryLimit == (SmallAbsentToNew + 1) * PriorClosures + HistoryFrames

HistoryPresentFrame ==
    \E f \in HistoryInputs : FrameWithROI(f, HistoryLimit)

HistoryAbsentFrame == FrameWithoutROI(HistoryLimit)

NextHistory == HistoryPresentFrame \/ HistoryAbsentFrame

SpecHistory == InitHistory /\ [][NextHistory]_vars

(***************************************************************************)
(* Properties.                                                             *)
(***************************************************************************)
LastRecord ==
    transfer_stats.transfer_history[Len(transfer_stats.transfer_history)]

\* C1: with ABSENT_TO_NEW = 8 and a fresh tracker, 20 frames with a ROI
\* followed by 10 without open one transfer at frame 1 and no other, close
\* it at frame 28 (the 8th absent frame in a row) and at no other frame,
\* and leave exactly one record in the history, whose duration_frames is 20.
ScenarioAOneTransfer ==
    LET closing == ScenarioPresent + ABSENT_TO_NEW
    IN  scenario_a /\ frame_count > 0 =>
          /\ (last_event = "open") <=> (frame_count = 1)
          /\ (last_event = "close") <=> (frame_count = closing)
          /\ frame_count < closing =>
                /\ current_transfer_active
                /\ transfer_stats.transfer_history = <<>>
                /\ transfer_stats.total_evaluated = 0
          /\ frame_count >= closing =>
                /\ ~current_transfer_active
                /\ Len(transfer_stats.transfer_history) = 1
                /\ LastRecord.duration_frames = ScenarioPresent
                /\ transfer_stats.total_evaluated = 1
                /\ transfer_count = 1

\* The whole of scenario A has been processed.
ScenarioAProcessed ==
    /\ scenario_a
    /\ ABSENT_TO_NEW = 8
    /\ frame_count = ScenarioPresent + ScenarioAbsent
    /\ Len(transfer_stats.transfer_history) = 1

\* C2: at a closure, the record is approved iff the mean of the recorded
\* counts of each of smudge, simbolos and blackdot is at most 0.20, and its
\* rejection_reasons flag exactly the classes whose mean exceeds 0.20.
ApprovalRule ==
    LET over(c) == /\ Len(closed_stats[c]) > 0
                   /\ 5 * SumSeq(closed_stats[c]) > Len(closed_stats[c])
    IN  last_event = "close" =>
          /\ LastRecord.approved <=> \A c \in ClassKeys : ~over(c)
          /\ ~LastRecord.approved <=> \E c \in ClassKeys : over(c)
          /\ LastRecord.rejection_reasons.smudge_reject <=> over("smudge")
          /\ LastRecord.rejection_reasons.simbolos_reject <=> over("simbolos")
          /\ LastRecord.rejection_reasons.blackdot_reject <=> over("blackdot")

\* A closure with smudge counted once in 3 of 10 recorded frames and the
\* other classes in 1 of 10: rejected, for smudge alone.
RejectedThreeInTen ==
    /\ last_event = "close"
    /\ \A c \in ClassKeys : Len(closed_stats[c]) = 10
    /\ \A i \in 1..10 : closed_stats["smudge"][i] <= 1
    /\ SumSeq(closed_stats["smudge"]) = 3
    /\ SumSeq(closed_stats["simbolos"]) = 1
    /\ SumSeq(closed_stats["blackdot"]) = 1
    /\ ~LastRecord.approved
    /\ LastRecord.rejection_reasons.smudge_reject
    /\ ~LastRecord.rejection_reasons.simbolos_reject
    /\ ~LastRecord.rejection_reasons.blackdot_reject

\* C3: after every processed frame the tracker is ACTIVE iff a frame with a
\* ROI lies among the last ABSENT_TO_NEW processed frames; ACTIVE implies
\* that the absent counter is below ABSENT_TO_NEW.
ActiveIffRecentRoi ==
    frame_count > 0 =>
      /\ current_transfer_active <=>
            (last_roi_frame > 0 /\ frame_count - last_roi_frame < ABSENT_TO_NEW)
      /\ current_transfer_active => frames_without_roi < ABSENT_TO_NEW
      /\ current_transfer_active =>
            frames_without_roi = frame_count - last_roi_frame

\* A second transfer, one absent frame away from its closure.
SecondTransferAtTheEdge ==
    /\ current_transfer_active
    /\ transfer_count >= 1
    /\ frames_without_roi = ABSENT_TO_NEW - 1

\* C4: an ACTIVE transfer closes in exactly the frame in which the absent
\* counter reaches ABSENT_TO_NEW; a frame with a ROI after a shorter absence
\* resets the counter to 0 and continues the same transfer: no record, no
\* new transfer, and the transfer's frame count goes on from where it was.
ClosureExactlyAtThreshold ==
    [][ /\ (current_transfer_active /\ ~current_transfer_active') <=>
              (current_transfer_active /\ frames_without_roi' = ABSENT_TO_NEW)
        /\ (current_transfer_active /\ ~current_transfer_active') =>
              /\ Len(transfer_stats'.transfer_history) =
                    Len(transfer_stats.transfer_history) + 1
              /\ transfer_count' = transfer_count + 1
        /\ (current_transfer_active /\ frames_without_roi' # ABSENT_TO_NEW) =>
              /\ current_transfer_active'
              /\ transfer_stats' = transfer_stats
              /\ transfer_count' = transfer_count
              /\ current_transfer_start_frame' = current_transfer_start_frame
        /\ last_event' \in {"absent", "close", "idle"} =>
              frames_without_roi' = frames_without_roi + 1
        /\ (current_transfer_active /\ last_event' \in {"present", "open"}) =>
              /\ last_event' = "present"
              /\ frames_without_roi' = 0
              /\ current_transfer_frames' = current_transfer_frames + 1
      ]_vars

\* A transfer that went on after an absence shorter than ABSENT_TO_NEW.
ContinuedAfterShortAbsence ==
    /\ current_transfer_active
    /\ last_event = "present"
    /\ transfer_count = 0
    /\ frame_count - current_transfer_start_frame > current_transfer_frames

\* C5: after any frames and closures,
\* total_evaluated = total_approved + total_rejected.
TotalsBalance ==
    transfer_stats.total_evaluated =
        transfer_stats.total_approved + transfer_stats.total_rejected

\* Closures of both kinds have happened.
ApprovedAndRejected ==
    /\ transfer_stats.total_approved >= 1
    /\ transfer_stats.total_rejected >= 1

\* The resolver was given exactly one detection of class_name and one of
\* other_name.
OnePairInput(class_name, other_name) ==
    /\ res_phase = "resolved"
    /\ {class_name, other_name} \subseteq DOMAIN res_input
    /\ \A c \in DOMAIN res_input :
          Len(res_input[c]) = IF c \in {class_name, other_name} THEN 1 ELSE 0

\* C6: a simbolos detection with class id 1 (FIFA_OK) and a smudge detection
\* whose boxes have IOU 0.5 are both retained by the resolution.
FifaOkAndSmudgeCoexist ==
    (/\ OnePairInput("simbolos", "smudge")
     /\ res_input["simbolos"][1].class_id = 1
     /\ LET iou == CalculateIou(res_input["simbolos"][1].bbox,
                                res_input["smudge"][1].bbox)
        IN  2 * iou[1] = iou[2])
    => /\ res_output["simbolos"] = res_input["simbolos"]
       /\ res_output["smudge"] = res_input["smudge"]

\* The boxes share no area.
NoCommonArea(a, b) ==
    \/ Min(a[3], b[3]) - Max(a[1], b[1]) <= 0
    \/ Min(a[4], b[4]) - Max(a[2], b[2]) <= 0

RetainedPairsApart ==
    res_phase = "resolved" =>
      \A ca \in DOMAIN res_output : \A cb \in DOMAIN res_output \ {ca} :
         \A i \in 1..Len(res_output[ca]) : \A j \in 1..Len(res_output[cb]) :
            LET a == res_output[ca][i]
                b == res_output[cb][j]
                iou == CalculateIou(a.bbox, b.bbox)
            IN  \/ ca = "smudge" /\ cb = "simbolos" /\ b.class_id \in {0, 1}
                \/ cb = "smudge" /\ ca = "simbolos" /\ a.class_id \in {0, 1}
                \/ 100 * iou[1] <= 2 * iou[2]
                \/ ca = "smudge" /\ NoCommonArea(a.bbox, b.bbox)
                \/ cb = "smudge" /\ NoCommonArea(b.bbox, a.bbox)

\* A blackdot and a simbolos detection retained with overlapping boxes.
OverlappingPairRetained ==
    /\ res_phase = "resolved"
    /\ {"simbolos", "blackdot"} \subseteq DOMAIN res_output
    /\ \E i \in 1..Len(res_output["simbolos"]) :
       \E j \in 1..Len(res_output["blackdot"]) :
          CalculateIou(res_output["simbolos"][i].bbox,
                       res_output["blackdot"][j].bbox)[1] > 0

\* C9: from the second call for a class on, two consecutive outputs of
\* _stabilize_detection_count differ by at most max(1, half the earlier).
StabilizerBoundedStep ==
    \A t \in 2..Len(stab_outputs) :
       2 * Abs(stab_outputs[t] - stab_outputs[t - 1])
          <= Max(2, stab_outputs[t - 1])

\* C10 as stated: while a transfer is ACTIVE the nine sequences all have the
\* length of the number of frames processed since it opened.
NineSequencesSameLength ==
    current_transfer_active =>
       \A k \in StatKeys :
          Len(current_transfer_stats[k]) =
              frame_count - current_transfer_start_frame

\* C10: while a transfer is ACTIVE, the six OK/NO sequences hold one count
\* for every frame processed since it opened, and the three class sequences
\* one count for every such frame with a ROI.
SequenceLengths ==
    current_transfer_active =>
       /\ \A k \in OkNoKeys :
             Len(current_transfer_stats[k]) =
                 frame_count - current_transfer_start_frame
       /\ \A c \in ClassKeys :
             Len(current_transfer_stats[c]) = current_transfer_frames

\* An ACTIVE transfer with frames without ROI behind it.
SequencesOfDifferentLength ==
    /\ current_transfer_active
    /\ last_event = "present"
    /\ Len(current_transfer_stats["fifa_ok"]) >
          Len(current_transfer_stats["smudge"]) + 1

\* C11: after a frame with a ROI in which the sub-detector of a class found
\* nothing, or had its result rejected by the validator (raw count 0), the
\* count of the class in the frame's stats and the one recorded for the
\* frame in the transfer's sequence are both 0.
NothingDetectedCountsZero ==
    stats.has_roi =>
       \A c \in ClassKeys :
          (/\ model_enabled[c]
           /\ detection_history[c][Len(detection_history[c])] = 0)
          => /\ stats[c] = 0
             /\ current_transfer_stats[c][Len(current_transfer_stats[c])] = 0

\* C12: once the application has stopped the session, every transfer that
\* was opened is finalized: each has its record in the history, the totals
\* count it, and the final summary counts it.
StopFinalizesOpenTransfer ==
    LET opened == transfer_count + IF current_transfer_active THEN 1 ELSE 0
    IN  ~running /\ final_summary # <<>> =>
          /\ Len(transfer_stats.transfer_history) = opened
          /\ transfer_stats.total_evaluated = opened
          /\ final_summary[1].total_transfers_evaluated = opened


\* C13: a step that closes a transfer raises total_evaluated by one and
\* exactly one of total_approved and total_rejected by one; every other step
\* leaves the three totals and the history as they were, so that no total
\* ever decreases.
TotalsStepOnlyAtClosure ==
    [][LET ts == transfer_stats
           closes == current_transfer_active /\ ~current_transfer_active'
       IN  IF closes
           THEN /\ ts.total_evaluated' = ts.total_evaluated + 1
                /\ \/ /\ ts.total_approved' = ts.total_approved + 1
                      /\ ts.total_rejected' = ts.total_rejected
                   \/ /\ ts.total_approved' = ts.total_approved
                      /\ ts.total_rejected' = ts.total_rejected + 1
           ELSE transfer_stats' = transfer_stats]_vars

\* Two transfers were closed, one of them rejected, and a later frame without
\* ROI found no transfer open.
IdleAfterTwoClosures ==
    /\ transfer_stats.total_evaluated = 2
    /\ transfer_stats.total_rejected = 1
    /\ last_event = "idle"


\* C14: the history never holds more than 100 records; a closure appends
\* its record at the end, and when that would make 101 records the oldest
\* one is evicted and the others keep their order.
HistoryCappedFifo ==
    [][LET old == transfer_stats.transfer_history
           new == transfer_stats.transfer_history'
           closes == current_transfer_active /\ ~current_transfer_active'
       IN  /\ Len(new) <= 100
           /\ closes =>
                 /\ new[Len(new)].transfer_id = transfer_count
                 /\ new[Len(new)].duration_frames = current_transfer_frames
                 /\ IF Len(old) = 100
                    THEN /\ Len(new) = 100
                         /\ \A i \in 1..99 : new[i] = old[i + 1]
                    ELSE /\ Len(new) = Len(old) + 1
                         /\ \A i \in 1..Len(old) : new[i] = old[i]]_vars

\* The 101st closure of the run has evicted the record of the first one.
OldestRecordEvicted ==
    /\ Len(transfer_stats.transfer_history) = 100
    /\ transfer_stats.total_evaluated = 101
    /\ transfer_stats.transfer_history[1].transfer_id = 1
    /\ LastRecord.transfer_id = 100


\* C15: while no transfer is open, and so right after a closure, the nine
\* sequences of the current transfer are empty; in the frame that opens the
\* next transfer each of them holds the one entry of that frame and nothing
\* of the transfer before.
SequencesRestartEmpty ==
    /\ ~current_transfer_active =>
          \A k \in StatKeys : current_transfer_stats[k] = <<>>
    /\ last_event = "open" =>
          /\ \A k \in StatKeys : Len(current_transfer_stats[k]) = 1
          /\ \A c \in ClassKeys : current_transfer_stats[c][1] = stats[c]
          /\ \A k \in OkNoKeys : current_transfer_stats[k][1] = stats.ok_no[k]

\* A transfer with smudge counted has been closed and the next one has just
\* been opened by a frame in which nothing is counted.
ReopenedAfterCountedTransfer ==
    /\ transfer_count >= 1
    /\ last_event = "open"
    /\ SumSeq(closed_stats["smudge"]) > 0
    /\ Len(closed_stats["fifa_ok"]) > 1
    /\ stats["smudge"] = 0


\* C16: at most one transfer is open at a time: the number of transfers
\* opened minus the number closed is 0 or 1, and is 1 exactly when the
\* tracker is ACTIVE; transfer_count and total_evaluated both equal the
\* number of closures.
AtMostOneOpenTransfer ==
    /\ transfers_opened - transfers_closed \in {0, 1}
    /\ (transfers_opened - transfers_closed = 1) <=> current_transfer_active
    /\ transfer_count = transfers_closed
    /\ transfer_stats.total_evaluated = transfers_closed

\* The third transfer of the run is open.
ThirdTransferOpen ==
    /\ transfers_closed = 2
    /\ current_transfer_active
    /\ transfers_opened = 3


\* C17: a transfer gets its id when it closes, so every id in the history
\* is below transfer_count, also while a transfer is open, and the record
\* of a closure carries the number of closures before it; the ids in the
\* history are strictly increasing from each record to the next one,
\* also after evictions.
IdsIncreaseInClosureOrder ==
    LET history == transfer_stats.transfer_history
    IN  /\ \A i \in 1..Len(history) : history[i].transfer_id < transfer_count
        /\ \A i \in 1..Len(history) - 1 :
              history[i].transfer_id < history[i + 1].transfer_id
        /\ last_event = "close" =>
              LastRecord.transfer_id = transfers_closed - 1

\* The closure that has just happened evicted a second record.
ClosedAfterTwoEvictions ==
    /\ last_event = "close"
    /\ Len(transfer_stats.transfer_history) = 100
    /\ transfer_stats.transfer_history[1].transfer_id = 2
    /\ LastRecord.transfer_id = 101


\* C18: the average of a class computed by a closure is the sum of the
\* counts recorded for the class in the transfer divided by their number,
\* a count above 1 counting in full, and the class is flagged for rejection
\* exactly when that quotient exceeds 0.20: a single 3 among 10 counts
\* gives 0.3 and rejects, two 1s among 10 give 0.2 and do not.
AverageIsRawMean ==
    LET sum(c) == SumSeq(closed_stats[c])
        len(c) == Len(closed_stats[c])
        same(avg, c) == avg[2] > 0 /\ avg[1] * len(c) = sum(c) * avg[2]
        flag == [smudge |-> LastRecord.rejection_reasons.smudge_reject,
                 simbolos |-> LastRecord.rejection_reasons.simbolos_reject,
                 blackdot |-> LastRecord.rejection_reasons.blackdot_reject]
        avg_of == [smudge |-> LastRecord.smudge_avg,
                   simbolos |-> LastRecord.simbolos_avg,
                   blackdot |-> LastRecord.blackdot_avg]
    IN  last_event = "close" =>
          \A c \in ClassKeys :
             /\ len(c) > 0
             /\ same(transfer_averages[c], c)
             /\ same(avg_of[c], c)
             /\ flag[c] <=> 5 * sum(c) > len(c)
             /\ flag[c] => ~LastRecord.approved

\* A closure over 10 recorded frames with blackdot counted 3 times in one
\* frame and smudge once in each of two frames: blackdot averages 3/10 and
\* rejects the transfer, smudge averages 2/10 and is not flagged.
ThreeInOneFrameRejects ==
    /\ last_event = "close"
    /\ \A c \in ClassKeys : Len(closed_stats[c]) = 10
    /\ CountPositive(closed_stats["blackdot"]) = 1
    /\ SumSeq(closed_stats["blackdot"]) = 3
    /\ CountPositive(closed_stats["smudge"]) = 2
    /\ SumSeq(closed_stats["smudge"]) = 2
    /\ LastRecord.rejection_reasons.blackdot_reject
    /\ ~LastRecord.rejection_reasons.smudge_reject
    /\ ~LastRecord.approved


\* The detections of simbolos and blackdot given to the resolver, each as
\* <<class, position in the list of the class>>.
CandidatesNotSmudge ==
    {p \in {"simbolos", "blackdot"} \X (1..MaxDets) :
        p[1] \in DOMAIN res_input /\ p[2] <= Len(res_input[p[1]])}

CandidateAt(p) == res_input[p[1]][p[2]]

RetainedExclusive(p) ==
    \E j \in 1..Len(res_exclusive[p[1]]) :
        res_exclusive[p[1]][j] = CandidateAt(p)

\* p is considered before q: blackdot before simbolos, then the higher
\* confidence, then the earlier position in the list.
ConsideredBefore(p, q) ==
    LET rank(c) == IF c = "blackdot" THEN 0 ELSE 1
    IN  \/ rank(p[1]) < rank(q[1])
        \/ /\ rank(p[1]) = rank(q[1])
           /\ CandidateAt(p).confidence > CandidateAt(q).confidence
        \/ /\ rank(p[1]) = rank(q[1])
           /\ CandidateAt(p).confidence = CandidateAt(q).confidence
           /\ p[2] < q[2]

IouAboveExclusive(a, b) ==
    LET iou == CalculateIou(a.bbox, b.bbox) IN 100 * iou[1] > 2 * iou[2]

\* A simbolos or blackdot detection is retained by the exclusive pass
\* exactly when no detection considered before it is retained with an IOU
\* above 0.02 with it; so a simbolos detection with an IOU above 0.02 with a
\* retained blackdot is not retained.
GreedyAcceptance ==
    /\ \A q \in CandidatesNotSmudge :
          RetainedExclusive(q) <=>
             ~ \E p \in CandidatesNotSmudge :
                  /\ ~(p[1] = q[1] /\ CandidateAt(p) = CandidateAt(q))
                  /\ ConsideredBefore(p, q)
                  /\ RetainedExclusive(p)
                  /\ IouAboveExclusive(CandidateAt(p), CandidateAt(q))
    /\ \A q \in CandidatesNotSmudge :
          (/\ q[1] = "simbolos"
           /\ "blackdot" \in DOMAIN res_exclusive
           /\ \E j \in 1..Len(res_exclusive["blackdot"]) :
                 IouAboveExclusive(res_exclusive["blackdot"][j],
                                   CandidateAt(q)))
          => ~RetainedExclusive(q)

\* p and q are of one class, p with the higher confidence, and their IOU
\* is above 0.02.
OverlappingPairOfOneClass(p, q) ==
    /\ p[1] = q[1]
    /\ CandidateAt(p).confidence > CandidateAt(q).confidence
    /\ IouAboveExclusive(CandidateAt(p), CandidateAt(q))

\* C19 as stated: in the exclusive pass the simbolos and blackdot
\* detections are considered blackdot first, then by descending confidence,
\* each accepted unless its IOU with an accepted one exceeds 0.02; a
\* simbolos detection with an IOU above 0.02 with a retained blackdot is
\* never retained; and of two detections of equal priority with an IOU
\* above 0.02 the one of lower confidence is not retained.
LowerConfidenceNeverRetained ==
    res_phase = "resolved" =>
      /\ GreedyAcceptance
      /\ \A p \in CandidatesNotSmudge : \A q \in CandidatesNotSmudge :
            OverlappingPairOfOneClass(p, q) => ~RetainedExclusive(q)

\* C19, amended: the same, except that of two detections of equal priority
\* with an IOU above 0.02 the one of lower confidence is not retained when
\* the one of higher confidence is retained; no two retained simbolos or
\* blackdot detections have an IOU above 0.02.
GreedyByPriorityThenConfidence ==
    res_phase = "resolved" =>
      /\ GreedyAcceptance
      /\ \A p \in CandidatesNotSmudge : \A q \in CandidatesNotSmudge :
            (OverlappingPairOfOneClass(p, q) /\ RetainedExclusive(p))
            => ~RetainedExclusive(q)
      /\ \A ca \in {"simbolos", "blackdot"} \cap DOMAIN res_exclusive :
         \A cb \in {"simbolos", "blackdot"} \cap DOMAIN res_exclusive :
         \A i \in 1..Len(res_exclusive[ca]) :
         \A j \in 1..Len(res_exclusive[cb]) :
            (ca # cb \/ i # j) =>
               ~IouAboveExclusive(res_exclusive[ca][i], res_exclusive[cb][j])

\* Of two overlapping blackdots the one of higher confidence is retained and
\* the other dropped, and a simbolos detection of still higher confidence
\* is dropped for the retained blackdot.
HigherConfidenceSimbolosDropped ==
    /\ res_phase = "resolved"
    /\ \E p \in CandidatesNotSmudge : \E q \in CandidatesNotSmudge :
       \E r \in CandidatesNotSmudge :
          /\ p[1] = "blackdot" /\ r[1] = "simbolos"
          /\ OverlappingPairOfOneClass(p, q)
          /\ RetainedExclusive(p) /\ ~RetainedExclusive(q)
          /\ CandidateAt(r).confidence > CandidateAt(p).confidence
          /\ IouAboveExclusive(CandidateAt(p), CandidateAt(r))
          /\ ~RetainedExclusive(r)

\* How many times the detection is in the list.
Occurrences(dets, detection) ==
    Cardinality({i \in 1..Len(dets) : dets[i] = detection})

\* The result has the classes of the input and, under each class, only
\* detections of the input of that class, none more often than there.
OnlyRemoved(result, input) ==
    /\ DOMAIN result = DOMAIN input
    /\ \A c \in DOMAIN result : \A i \in 1..Len(result[c]) :
          /\ Occurrences(input[c], result[c][i]) >= 1
          /\ Occurrences(result[c], result[c][i])
                <= Occurrences(input[c], result[c][i])

\* C20: every detection in the result of _apply_exclusive_filtering and of
\* _filter_overlapping_detections is a detection of the input, under the
\* same class, with the same bbox, confidence and class_id; none is added,
\* duplicated, moved to another class or modified.
ResolverOnlyRemoves ==
    res_phase = "resolved" =>
      /\ OnlyRemoved(res_exclusive, res_input)
      /\ OnlyRemoved(res_output, res_exclusive)
      /\ OnlyRemoved(res_output, res_input)

\* A detection has been removed, and a smudge and a simbolos detection with
\* its class_id have come through both passes.
RemovedAndKept ==
    /\ res_phase = "resolved"
    /\ TotalDetections(res_output) < TotalDetections(res_input)
    /\ {"smudge", "simbolos"} \subseteq DOMAIN res_output
    /\ Len(res_output["smudge"]) > 0
    /\ Len(res_output["simbolos"]) > 0
    /\ res_output["simbolos"][1].class_id = 3


\* C21: when the history of a class holds the raw count 2 only and a single
\* raw count 8 follows, the value returned for the 8 differs by at most 1
\* from the value returned before it, which is 2; it is not 8.
NoisyFrameMovesByOne ==
    LET h == detection_history[stab_class]
        n == Len(stab_outputs)
    IN  (/\ stab_class \in ClassKeys
         /\ n >= 2
         /\ Len(h) = n
         /\ h[n] = 8
         /\ \A i \in 1..n - 1 : h[i] = 2)
        => /\ stab_outputs[n - 1] = 2
           /\ Abs(stab_outputs[n] - stab_outputs[n - 1]) <= 1
           /\ stab_outputs[n] # 8

\* The raw counts 2, 2, 2, 2, 2 and then 8 have been given: 3 is returned.
EightAfterFiveTwos ==
    /\ stab_class \in ClassKeys
    /\ detection_history[stab_class] = <<2, 2, 2, 2, 2, 8>>
    /\ Len(stab_outputs) = 6
    /\ stab_outputs[5] = 2
    /\ stab_outputs[6] = 3


\* The bboxes accepted into the history among the first t calls.
AcceptedUpTo(t) ==
    {i \in 1..t : smooth_inputs[i].confidence >= bbox_confidence_threshold}

\* C22: with fewer than two entries to smooth over, the input comes back as
\* it is: the first _stabilize_detection_count call for a class returns its
\* current_count, and _smooth_bbox returns current_bbox for the first bbox
\* it accepts and for every bbox before that one.
FirstInputReturnedUnmodified ==
    /\ (stab_class \in ClassKeys /\ Len(stab_outputs) >= 1) =>
          stab_outputs[1] = detection_history[stab_class][1]
    /\ \A t \in 1..Len(smooth_outputs) :
          AcceptedUpTo(t - 1) = {} =>
             smooth_outputs[t] = smooth_inputs[t].bbox

\* A count above 1 came back from the first call for the class, and the
\* first accepted bbox, given after a bbox of low confidence, came back too.
FirstCountAndFirstBboxReturned ==
    /\ stab_class \in ClassKeys
    /\ Len(stab_outputs) = 1
    /\ stab_outputs[1] = 3
    /\ Len(smooth_outputs) = 2
    /\ smooth_inputs[1].confidence < bbox_confidence_threshold
    /\ smooth_inputs[2].confidence >= bbox_confidence_threshold
    /\ smooth_inputs[2].bbox # smooth_inputs[1].bbox
    /\ smooth_outputs[2] = smooth_inputs[2].bbox
    /\ bbox_history = <<smooth_inputs[2].bbox>>


\* The last of the first t calls whose bbox was accepted, or 0.
LastAccepted(t) ==
    IF AcceptedUpTo(t) = {} THEN 0
    ELSE CHOOSE i \in AcceptedUpTo(t) : \A j \in AcceptedUpTo(t) : j <= i

\* C24: a _smooth_bbox call with a confidence below 0.3, made after a bbox
\* has been accepted, returns the bbox that was returned for the last
\* accepted bbox, and the history holds the accepted bboxes only.
LowConfidenceReturnsPreviousSmoothed ==
    /\ \A t \in 1..Len(smooth_outputs) :
          (/\ smooth_inputs[t].confidence < bbox_confidence_threshold
           /\ LastAccepted(t - 1) > 0)
          => smooth_outputs[t] = smooth_outputs[LastAccepted(t - 1)]
    /\ Len(bbox_history) = Cardinality(AcceptedUpTo(Len(smooth_inputs)))


\* new is old with one entry put at its end, the first entry of old dropped
\* when old already held cap entries.
OldestDropped(old, new, cap) ==
    IF Len(old) = cap
    THEN Len(new) = cap /\ \A i \in 1..cap - 1 : new[i] = old[i + 1]
    ELSE Len(new) = Len(old) + 1 /\ \A i \in 1..Len(old) : new[i] = old[i]

\* C23: the count history of each class never holds more than 8 entries
\* and the ROI bbox history never more than 5; a frame with a ROI puts the
\* raw count of each class at the end of its history and, unless it leaves
\* the bbox history as it is, the ROI bbox at the end of that one, and a
\* full history drops its oldest entry for it.
HistoriesBoundedFifo ==
    [][/\ \A c \in ClassKeys :
            /\ Len(detection_history'[c]) <= 8
            /\ stats'.has_roi =>
                  OldestDropped(detection_history[c], detection_history'[c], 8)
       /\ Len(bbox_history') <= 5
       /\ \/ bbox_history' = bbox_history
          \/ /\ OldestDropped(bbox_history, bbox_history', 5)
             /\ bbox_history'[Len(bbox_history')] = last_roi_bbox']_vars

\* Both histories are full and have dropped an entry: the smudge counts no
\* longer start with the 0 of the first frame, and the bbox history holds
\* two different bboxes.
HistoriesFullAndShifted ==
    /\ frame_count = 9
    /\ detection_history["smudge"] = <<1, 0, 0, 0, 0, 0, 0, 1>>
    /\ Len(bbox_history) = 5
    /\ bbox_history[1] # bbox_history[5]


(***************************************************************************)
(* C25: a frame whose ROI extraction fails (segmentation disabled or not   *)
(* loaded, exception, no mask, combined mask below roi_min_pixels, no      *)
(* contour) is handled as a frame without ROI: the absent counter grows by *)
(* exactly one, no sub-detector runs, and an active transfer closes on the *)
(* frame that makes ABSENT_TO_NEW absent frames in a row, not before.      *)
(***************************************************************************)
ExtractionFails(seg) ==
    \/ seg_model = "None"
    \/ ~model_enabled["seg"]
    \/ SegRaises(seg)
    \/ SegMasks(seg) = 0
    \/ SegArea(seg) < roi_min_pixels
    \/ SegBbox(seg) = NoBbox

FailedExtractionIsAbsentFrame ==
    [][(frame_count' = frame_count + 1 /\ ExtractionFails(last_extraction'[1]))
        => /\ frames_without_roi' = frames_without_roi + 1
           /\ inferences_run' = {}
           /\ ~stats'.has_roi
           /\ detection_history' = detection_history
           /\ IF current_transfer_active
                 /\ frames_without_roi + 1 >= ABSENT_TO_NEW
              THEN /\ ~current_transfer_active'
                   /\ transfers_closed' = transfers_closed + 1
              ELSE /\ current_transfer_active' = current_transfer_active
                   /\ transfers_closed' = transfers_closed]_vars

\* A transfer closed by frames whose segmentation was fine while the
\* segmentation model was disabled.
ClosedByDisabledSegmentation ==
    /\ last_event = "close"
    /\ last_extraction = <<GoodSeg>>
    /\ ~model_enabled["seg"]
    /\ seg_model = "loaded"
    /\ frames_without_roi = ABSENT_TO_NEW


(***************************************************************************)
(* C26: on a frame with ROI a class whose enable flag is off has no        *)
(* inference run, is reported as 0, gets 0 appended to its per-frame       *)
(* sequence and keeps its stabilizer history; every class whose flag is on *)
(* has its inference run and its stabilizer history fed.                   *)
(***************************************************************************)
DisabledClassSkipped ==
    [][(frame_count' = frame_count + 1 /\ stats'.has_roi)
        => \A c \in ClassKeys :
              IF model_enabled[c]
              THEN /\ c \in inferences_run'
                   /\ Len(detection_history'[c]) =
                         Min(Len(detection_history[c]) + 1,
                             stabilization_window)
              ELSE /\ c \notin inferences_run'
                   /\ stats'[c] = 0
                   /\ current_transfer_stats'[c] =
                         Append(IF current_transfer_active
                                THEN current_transfer_stats[c] ELSE <<>>, 0)
                   /\ detection_history'[c] = detection_history[c]]_vars

\* A second ROI frame processed with smudge off and the other two on.
SmudgeOffOthersCounted ==
    /\ stats.has_roi
    /\ frame_count = 2
    /\ inferences_run = {"simbolos", "blackdot"}
    /\ stats.smudge = 0
    /\ stats.simbolos = 1
    /\ stats.blackdot = 1
    /\ Len(current_transfer_stats["smudge"]) = 2
    /\ Len(detection_history["smudge"]) = 1
    /\ Len(detection_history["blackdot"]) = 2


(***************************************************************************)
(* C27: the strict validator accepts a raw result iff it has at least one  *)
(* box, a box of confidence >= 0.7, and a box of width in [25, 150],       *)
(* height in [25, 150] and width / height in [0.3, 3.0]; a result it       *)
(* rejects is discarded whole and counts as zero detections, a result it   *)
(* accepts is kept whole.                                                  *)
(***************************************************************************)
\* Width and height of a box of the crop, in thousandths of a pixel.
BoxWidth1000(box) == (box.xyxyn[3] - box.xyxyn[1]) * ResultRoi[3]
BoxHeight1000(box) == (box.xyxyn[4] - box.xyxyn[2]) * ResultRoi[4]

GeometryPasses(box) ==
    /\ BoxWidth1000(box) >= 25000 /\ BoxWidth1000(box) <= 150000
    /\ BoxHeight1000(box) >= 25000 /\ BoxHeight1000(box) <= 150000
    /\ 10 * BoxWidth1000(box) >= 3 * BoxHeight1000(box)
    /\ BoxWidth1000(box) <= 3 * BoxHeight1000(box)

StrictlyAcceptable(result) ==
    /\ Len(result) >= 1
    /\ \E i \in 1..Len(result) : result[i].conf >= 70
    /\ \E i \in 1..Len(result) : GeometryPasses(result[i])

StrictValidatorAcceptsIff ==
    (last_call # <<>> /\ last_call[1].method = "_validate_fifa_detection")
    => LET call == last_call[1]
       IN  /\ call.returned = StrictlyAcceptable(call.result)
           /\ IF StrictlyAcceptable(call.result)
              THEN /\ call.smudge_result = call.result
                   /\ call.smudge_count = Len(call.result)
              ELSE /\ call.smudge_result = NoResult
                   /\ call.smudge_count = 0

\* Two boxes of confidence 0.7, one too wide and one too elongated: the
\* result is rejected and counts as zero.
ConfidentButMisshapenRejected ==
    /\ last_call # <<>>
    /\ last_call[1].method = "_validate_fifa_detection"
    /\ Len(last_call[1].result) = 2
    /\ \A i \in 1..2 : last_call[1].result[i].conf >= 70
    /\ BoxWidth1000(last_call[1].result[1]) = 151000
    /\ BoxWidth1000(last_call[1].result[2]) = 91000
    /\ ~last_call[1].returned
    /\ last_call[1].smudge_count = 0


(***************************************************************************)
(* C28: every box the mapping from crop to frame returns lies inside the   *)
(* frame (x1 >= 0, y1 >= 0, x2 < width, y2 < height), has x1 < x2 and      *)
(* y1 < y2, is at least 10 pixels wide and high and at most 80% of the     *)
(* frame on each axis; a mapped box that fails one of these is not among   *)
(* the boxes returned, and the others are returned in their order.         *)
(***************************************************************************)
WellFormedInFrame(bbox) ==
    /\ bbox[1] >= 0 /\ bbox[2] >= 0
    /\ bbox[3] < FrameWidth /\ bbox[4] < FrameHeight
    /\ bbox[1] < bbox[3] /\ bbox[2] < bbox[4]
    /\ bbox[3] - bbox[1] >= 10 /\ bbox[4] - bbox[2] >= 10
    /\ 10 * (bbox[3] - bbox[1]) <= 8 * FrameWidth
    /\ 10 * (bbox[4] - bbox[2]) <= 8 * FrameHeight

MappedBoxesWellFormed ==
    (last_call # <<>> /\ last_call[1].method = "boxes_from_result_in_frame")
    => LET call == last_call[1]
           mapped == [i \in 1..Len(call.result) |->
                        MapBox(call.result[i].xyxyn, call.x0, call.y0,
                               CropShape(ResultRoi), FrameShape)]
           returned == [i \in 1..Len(call.returned) |->
                          call.returned[i].bbox]
       IN  /\ \A i \in 1..Len(returned) : WellFormedInFrame(returned[i])
           /\ returned = SelectSeq(mapped, WellFormedInFrame)

\* Of two boxes mapped with an offset of 150 the one of 9 pixels is dropped
\* and the one clipped at the right edge of the frame is returned.
NarrowDroppedClippedReturned ==
    /\ last_call # <<>>
    /\ last_call[1].method = "boxes_from_result_in_frame"
    /\ last_call[1].x0 = 150
    /\ Len(last_call[1].result) = 2
    /\ last_call[1].result[1].xyxyn = <<100, 100, 145, 400>>
    /\ Len(last_call[1].returned) = 1
    /\ last_call[1].returned[1].bbox[3] = FrameWidth - 1


(***************************************************************************)
(* C29: nothing divides by zero.  With no transfer closed the summary has  *)
(* total_transfers_evaluated = 0 and the placeholder error (class          *)
(* "Nenhuma", count 0, percentage 0.0); the approval_rate of a frame is    *)
(* 0.0 while total_evaluated = 0; a summary of a non-empty history whose   *)
(* error counts are all zero has percentage 0.0.                           *)
(***************************************************************************)
\* A percentage <<numerator, denominator>> that is a number, and that is 0.
IsNumber(p) == p[2] # 0
IsZero(p) == p[2] # 0 /\ p[1] = 0

NoErrorsIn(transfer_history) ==
    \A i \in 1..Len(transfer_history) :
        LET od == transfer_history[i].objects_detected
        IN  /\ od.fifa.no = 0 /\ od.simbolo.no = 0 /\ od.string.no = 0
            /\ od.smudge.total = 0 /\ od.blackdot.total = 0

NoDivisionByZero ==
    /\ IsNumber(stats.approval_rate)
    /\ transfer_stats.total_evaluated = 0 => IsZero(stats.approval_rate)
    /\ (~running /\ final_summary # <<>>)
         => LET summary == final_summary[1]
                transfer_history == transfer_stats.transfer_history
            IN  /\ IsNumber(summary.most_frequent_error.percentage)
                /\ summary.total_transfers_evaluated = Len(transfer_history)
                /\ Len(transfer_history) = 0
                     => /\ summary.most_frequent_error.class = "Nenhuma"
                        /\ summary.most_frequent_error.count = 0
                        /\ IsZero(summary.most_frequent_error.percentage)
                /\ NoErrorsIn(transfer_history)
                     => /\ summary.most_frequent_error.count = 0
                        /\ IsZero(summary.most_frequent_error.percentage)

\* A session stopped after a frame and before any transfer closed.
StoppedBeforeAnyClosure ==
    /\ ~running
    /\ final_summary # <<>>
    /\ frame_count >= 1
    /\ stats.has_roi
    /\ transfer_stats.total_evaluated = 0
    /\ final_summary[1].total_transfers_evaluated = 0
    /\ final_summary[1].most_frequent_error.class = "Nenhuma"

\* A session stopped after a transfer without errors closed.
StoppedAfterCleanTransfer ==
    /\ ~running
    /\ final_summary # <<>>
    /\ final_summary[1].total_transfers_evaluated = 1
    /\ NoErrorsIn(transfer_stats.transfer_history)


(***************************************************************************)
(* C30: the most frequent error of a summary is the entry with the largest *)
(* total among FIFA_NO, Simbolo_NO, String_NO, smudge and blackdot over    *)
(* the records of the history; of entries with the same largest total the  *)
(* earliest in that order is taken; its count is that largest total.       *)
(***************************************************************************)
ErrorDisplayOrder == <<"FIFA", "Simbolo", "String", "Smudge", "BlackDot">>

\* The totals over the history, in the order of ErrorDisplayOrder.
ErrorTotals(transfer_history) ==
    LET total(field(_)) ==
            SumSeq([i \in 1..Len(transfer_history) |->
                       field(transfer_history[i].objects_detected)])
    IN  <<total(LAMBDA od : od.fifa.no), total(LAMBDA od : od.simbolo.no),
          total(LAMBDA od : od.string.no), total(LAMBDA od : od.smudge.total),
          total(LAMBDA od : od.blackdot.total)>>

MostFrequentIsEarliestLargest ==
    (~running /\ final_summary # <<>>
        /\ Len(transfer_stats.transfer_history) > 0)
    => LET totals == ErrorTotals(transfer_stats.transfer_history)
           error == final_summary[1].most_frequent_error
       IN  \E i \in 1..5 :
              /\ error.class = ErrorDisplayOrder[i]
              /\ error.count = totals[i]
              /\ \A j \in 1..5 : totals[j] <= totals[i]
              /\ \A j \in 1..(i - 1) : totals[j] < totals[i]

\* Simbolo_NO and blackdot have the same largest total, not zero, and the
\* summary names Simbolo.
TieGoesToSimbolo ==
    /\ ~running
    /\ final_summary # <<>>
    /\ Len(transfer_stats.transfer_history) > 0
    /\ LET totals == ErrorTotals(transfer_stats.transfer_history)
       IN  /\ totals[2] > 0
           /\ totals[2] = totals[5]
           /\ \A j \in 1..5 : totals[j] <= totals[2]
    /\ final_summary[1].most_frequent_error.class = "Simbolo"


(***************************************************************************)
(* C31: frame_queue never holds more than 8 frames; a frame captured while *)
(* it is full is discarded at once, the queue staying as it is; the        *)
(* inference thread receives frames in capture order, each at most once,   *)
(* so the frames it processes are a subsequence of the captured ones.      *)
(***************************************************************************)
StrictlyIncreasing(seq) ==
    \A i \in 1..(Len(seq) - 1) : seq[i] < seq[i + 1]

\* The frames the detector has processed: those received, less the ones
\* skipped and the one still held.
ProcessedFrames ==
    LET done == IF Holding THEN SubSeq(received, 1, Len(received) - 1)
                ELSE received
    IN  [i \in {j \in 1..Len(done) : j \notin skipped} |-> done[i]]

QueueBoundedAndOrdered ==
    /\ Len(frame_queue) <= 8
    /\ StrictlyIncreasing(received \o frame_queue)
    /\ \A i \in 1..Len(received) : received[i] \in 1..captured
    /\ Cardinality(DOMAIN ProcessedFrames) = frame_count
    /\ grabbed # <<>> => ENABLED PutFrame

FullQueueDiscards ==
    (grabbed # <<>> /\ grabbed' = <<>>)
    => IF Len(frame_queue) = 8
       THEN /\ frame_queue' = frame_queue
            /\ discarded' = Append(discarded, grabbed[1])
       ELSE /\ frame_queue' = Append(frame_queue, grabbed[1])
            /\ discarded' = discarded

QueueDropsNewestKeepsOrder ==
    []QueueBoundedAndOrdered /\ [][FullQueueDiscards]_vars

\* Frame 9 was discarded on a full queue; the inference thread has since
\* received frames 1 to 8 and then frame 10.
ReceivedPastDiscardedFrame ==
    /\ discarded = <<9>>
    /\ Len(received) = 9
    /\ received[9] = 10
    /\ frame_count >= 1


(***************************************************************************)
(* C32: every detection of a frame with ROI has the bbox its raw box maps  *)
(* to when the normalized coordinates are scaled by the size of the crop   *)
(* and offset by the (x, y) of the ROI bbox the crop was cut from in that  *)
(* frame, then clipped to the frame.                                       *)
(***************************************************************************)
BoxesOffsetByRoiOfFrame ==
    stats.has_roi =>
       \A k \in 1..Len(handed_to_resolver) :
          handed_to_resolver[k][2] =
             MapBox(handed_to_resolver[k][5], last_roi_bbox[1],
                    last_roi_bbox[2], CropShape(last_roi_bbox), FrameShape)


(***************************************************************************)
(* C33: every detection handed to the resolver carries the confidence and, *)
(* for simbolos, the class id of the raw box its bbox was mapped from,     *)
(* also when other boxes of the result were dropped by _validate_bbox.     *)
(***************************************************************************)
DetectionsKeepOwnConfidence ==
    \A k \in 1..Len(handed_to_resolver) :
       LET d == handed_to_resolver[k]
       IN  /\ d[3] = d[6]
           /\ d[1] = "simbolos" => d[4] = d[7]


(***************************************************************************)
(* C34: the general overlap pass changes nothing on the output of the      *)
(* exclusive pass, class by class, and resolving a resolved output returns *)
(* it unchanged.                                                           *)
(***************************************************************************)
GeneralPassChangesNothing ==
    res_phase = "resolved" =>
       /\ DOMAIN res_output = DOMAIN res_exclusive
       /\ \A c \in DOMAIN res_exclusive : res_output[c] = res_exclusive[c]
       /\ FilterOverlappingDetections(res_exclusive) = res_exclusive
       /\ ResolveDetections(res_output) = res_output

\* The exclusive pass removed a detection and kept two of different classes
\* that overlap each other.
ResolvedWithOverlapKept ==
    /\ res_phase = "resolved"
    /\ TotalDetections(res_output) < TotalDetections(res_input)
    /\ \E c1, c2 \in DOMAIN res_output :
          /\ c1 # c2
          /\ \E i \in 1..Len(res_output[c1]) :
             \E j \in 1..Len(res_output[c2]) :
                IouGreater(CalculateIou(res_output[c1][i].bbox,
                                        res_output[c2][j].bbox), 0, 1)


ClassSequencesFilled ==
    current_transfer_active =>
       /\ current_transfer_frames >= 1
       /\ \A c \in ClassKeys :
             Len(current_transfer_stats[c]) = current_transfer_frames

ClosureAveragesFilledSequences ==
    (current_transfer_active /\ ~current_transfer_active') =>
       LET history == transfer_stats.transfer_history'
       IN  /\ \A c \in ClassKeys : Len(current_transfer_stats[c]) >= 1
           /\ \A c \in ClassKeys :
                 transfer_averages'[c] = MeanOf(current_transfer_stats[c])
           /\ history[Len(history)].duration_frames =
                 current_transfer_frames
           /\ history[Len(history)].duration_frames >= 1

ClassSequencesNeverEmpty ==
    []ClassSequencesFilled /\ [][ClosureAveragesFilledSequences]_vars

\* A transfer closed after a single frame with a ROI: its three class
\* sequences held one count each.
ClosedAfterOneRoiFrame ==
    /\ last_event = "close"
    /\ \A c \in ClassKeys : Len(closed_stats[c]) = 1
    /\ LET history == transfer_stats.transfer_history
       IN  history[Len(history)].duration_frames = 1


(***************************************************************************)
(* C37: in every frame recorded for a transfer the six OK/NO counts        *)
(* appended sum to the simbolos count recorded for the frame, so that at   *)
(* closure the fifa, simbolo and string totals add up to the sum of the    *)
(* simbolos sequence.                                                      *)
(***************************************************************************)
OkNoSumsToSimbolosCount ==
    /\ stats.has_roi =>
          LET cts == current_transfer_stats
              last(k) == cts[k][Len(cts[k])]
          IN  last("fifa_ok") + last("fifa_no") + last("simbolo_ok")
                 + last("simbolo_no") + last("string_ok") + last("string_no")
              = last("simbolos")
    /\ last_event = "close" =>
          LET history == transfer_stats.transfer_history
              objects == history[Len(history)].objects_detected
          IN  objects.fifa.total + objects.simbolo.total + objects.string.total
              = SumSeq(closed_stats["simbolos"])


(***************************************************************************)
(* C38: closing a transfer leaves the count histories and the ROI bbox     *)
(* history as they are, and the frame that opens the next transfer is      *)
(* stabilized and smoothed over them: when nothing is detected in it, its  *)
(* counts are those the stabilizer returns for 0 after the histories of    *)
(* the previous frames.                                                    *)
(***************************************************************************)
ClosureKeepsStabilizer ==
    (current_transfer_active /\ ~current_transfer_active') =>
       /\ detection_history' = detection_history
       /\ bbox_history' = bbox_history
       /\ \A k \in StatKeys : current_transfer_stats'[k] = <<>>

OpeningFrameStabilizedOverOldHistory ==
    (~current_transfer_active /\ current_transfer_active') =>
       /\ \A c \in ClassKeys :
             model_enabled[c] =>
                \E raw \in 0..MaxCount :
                   detection_history'[c] =
                       StabilizedHistory(detection_history[c], raw)
       /\ bbox_history' \in
             {bbox_history,
              SmoothedHistory(bbox_history, last_roi_bbox',
                              bbox_confidence_threshold)}
       /\ (\A c \in ClassKeys :
               /\ model_enabled[c]
               /\ detection_history'[c][Len(detection_history'[c])] = 0)
          => \A c \in ClassKeys :
                stats'[c] = StabilizedCount(detection_history[c], 0)

StabilizerSurvivesClosure ==
    [][ClosureKeepsStabilizer /\ OpeningFrameStabilizedOverOldHistory]_vars

\* The second transfer opens on a frame without detections, and its
\* simbolos count is 1: the stabilizer still holds the 2 of the frame
\* before the closure.
NextTransferSeesOldCounts ==
    /\ last_event = "open"
    /\ transfers_closed >= 1
    /\ detection_history["simbolos"] = <<2, 0>>
    /\ stats.simbolos = 1
    /\ StabilizedCount(<<>>, 0) = 0
    /\ Len(bbox_history) >= 2


(***************************************************************************)
(* C39: after n closures the summary's total_transfers_evaluated is        *)
(* min(n, 100) while total_evaluated is n, so the two agree while          *)
(* n <= 100; the summary taken after a closure lists the last min(n, 100)  *)
(* transfers and its totals for smudge and blackdot are the sums over the  *)
(* transfers listed.                                                       *)
(***************************************************************************)
SummaryCoversRetainedRecords ==
    /\ transfer_stats.total_evaluated = transfers_closed
    /\ last_event = "close" =>
          \A summary \in
                {FinalStatisticsSummary(transfer_stats.transfer_history)} :
          \A listed \in {summary.objects_per_transfer} :
          LET n == transfers_closed
          IN  /\ summary.total_transfers_evaluated = Min(n, HISTORY_CAP)
              /\ n <= HISTORY_CAP =>
                    summary.total_transfers_evaluated =
                        transfer_stats.total_evaluated
              /\ Len(listed) = Min(n, HISTORY_CAP)
              /\ \A i \in 1..Len(listed) :
                    listed[i].transfer_id = n - Len(listed) + i - 1
              /\ \A kind \in {"smudge", "blackdot"} :
                    summary.transfers_by_class[kind].total_objects =
                        SumSeq([i \in 1..Len(listed) |-> listed[i][kind]])

\* After 101 closures the summary covers 100 transfers, the first of them
\* the second one closed.
SummaryOfHundredAfter101 ==
    /\ last_event = "close"
    /\ transfers_closed = 101
    /\ transfer_stats.total_evaluated = 101
    /\ \E summary \in
             {FinalStatisticsSummary(transfer_stats.transfer_history)} :
          /\ summary.total_transfers_evaluated = 100
          /\ summary.objects_per_transfer[1].transfer_id = 1

=============================================================================
